---- MODULE Spec2Model ----
(***************************************************************************)
(* A model of svg2pdc: the coordinate quantizer (point.rs), the palette    *)
(* colour quantizer (color.rs), the binary encoder (image.rs) and the      *)
(* style resolution of the scene walker (svg_converter.rs).                *)
(*                                                                         *)
(* f32 coordinates are modelled as integers counting sixteenths (Unit):    *)
(* every value the model feeds to the quantizer is a small dyadic          *)
(* rational, on which the f32 operations *, /, + and floor are exact.  The *)
(* one inexact operation, x + f32::EPSILON, is modelled by its f32 result  *)
(* (see EpsilonAbsorbed).                                                  *)
(***************************************************************************)
EXTENDS Integers, Sequences, FiniteSets, TLC

VARIABLES
    point, precision, conversion, device,      \* FPoint::pebble_coordinates
    color, truncate_color, pebble_color,       \* PebbleColor::from_color_with_*
    quantized, requantized,                    \* the channels after one and two passes
    command, written,                          \* DrawCommand::serialize
    image, sink,                               \* PebbleImage::serialize
    shape, created,                            \* SvgConverter::create_command
    document, converted, output,               \* parse_svg_image, then serialize
    path, walk, traced                         \* the loop of parse_path

pointVars == <<point, precision, conversion, device>>
colorVars == <<color, truncate_color, pebble_color, quantized, requantized>>
commandVars == <<command, written>>
imageVars == <<image, sink>>
shapeVars == <<shape, created>>
docVars == <<document, converted, output>>
pathVars == <<path, walk, traced>>
vars == <<pointVars, colorVars, commandVars, imageVars, shapeVars, docVars, pathVars>>

(***************************************************************************)
(* Bounds of the model.                                                    *)
(***************************************************************************)
\* float coordinates range over -MaxNeg .. MaxPos sixteenths
MaxNeg == 56
MaxPos == 72
\* points of a path, commands of an image
MaxPoints == 2
MaxCommands == 2
MaxSegments == 3
MaxChildren == 3

(***************************************************************************)
(* Program constants.                                                      *)
(***************************************************************************)
NormalK == 2
PreciseK == 8
PreciseScale == 8
\* sixteenths: half the step of the Precise grid, so that off-grid points exist
Unit == 2 * PreciseK
Half == Unit \div 2

Precisions == {"Normal", "Precise"}
Conversions == {"ConvertNoWarn", "ConvertWarn", "RequireExact"}

U8Max == 255
U16Max == 65535

(***************************************************************************)
(* point.rs                                                                *)
(***************************************************************************)
FPoint(x, y) == [x |-> x, y |-> y]
PebblePoint(x, y) == [x |-> x, y |-> y]

\* f32: v + f32::EPSILON (2^-23).  For -2 <= v < 2 the sum is representable
\* and lies strictly between v and the next sixteenth; from magnitude 2 up
\* (for -2 itself the sum is 1.9999999 in magnitude, still representable) the
\* sum is a tie or less between v and its neighbour and rounds back to v.
EpsilonAbsorbed(v) == v < -2 * Unit \/ v >= 2 * Unit

\* f32::round of a value of v sixteenths: half away from zero
RoundHalfAway(v) ==
    IF v >= 0 THEN (v + Half) \div Unit ELSE -((-v + Half) \div Unit)

\* (v + f32::EPSILON).round() for v sixteenths; the result is a whole number.
\* When the epsilon is kept, a value on a half moves just above it: a
\* negative half then rounds towards zero, every other value rounds as
\* before (floor(v + 1/2)).
RoundEpsilonKept(v) == (v + Half) \div Unit

\* mutant: the epsilon forgotten
RoundCoord_NoEpsilon(v) == RoundHalfAway(v)

RoundCoord(v) ==
    IF EpsilonAbsorbed(v) THEN RoundHalfAway(v) ELSE RoundEpsilonKept(v)

\* FPoint::round, the result again in sixteenths
Round(p) == FPoint(RoundCoord(p.x) * Unit, RoundCoord(p.y) * Unit)

\* mutant: the constants of the two precisions exchanged
PrecisionConstant_Swapped(prec) == IF prec = "Normal" THEN PreciseK ELSE NormalK

PrecisionConstant(prec) == IF prec = "Normal" THEN NormalK ELSE PreciseK

\* impl Mul<f32> / Div<f32> for FPoint, by a power of two that divides exactly
MulPoint(p, k) == FPoint(p.x * k, p.y * k)
DivPoint(p, k) == FPoint(p.x \div k, p.y \div k)

\* (*self * constant).round() / constant
find_nearest_valid(p, prec) ==
    DivPoint(Round(MulPoint(p, PrecisionConstant(prec))), PrecisionConstant(prec))

\* `as u16` of a whole f32: saturating
CastU16(n) == IF n < 0 THEN 0 ELSE IF n > U16Max THEN U16Max ELSE n

\* point + FPoint::new(-0.5, -0.5)
TranslateHalf(q) == FPoint(q.x - Half, q.y - Half)

\* the rounded point (whole numbers, in sixteenths), scaled in Precise mode and
\* cast to u16
ScaleAndCast(t, prec) ==
    IF prec = "Normal"
    THEN PebblePoint(CastU16(t.x \div Unit), CastU16(t.y \div Unit))
    ELSE PebblePoint(CastU16((t.x \div Unit) * PreciseScale),
                     CastU16((t.y \div Unit) * PreciseScale))

\* the body of pebble_coordinates once nearest_valid is known; warned records
\* the eprintln! of ConvertWarn
QuantizeWith(p, nearest_valid, prec, conv) ==
    IF p # nearest_valid /\ conv = "RequireExact"
    THEN [ok |-> FALSE, err |-> "InvalidPoint", point |-> p,
          nearest_valid |-> nearest_valid]
    ELSE [ok |-> TRUE,
          warned |-> p # nearest_valid /\ conv = "ConvertWarn",
          point |-> ScaleAndCast(
                        Round(TranslateHalf(IF p # nearest_valid THEN nearest_valid ELSE p)),
                        prec)]

\* FPoint::pebble_coordinates
pebble_coordinates(p, prec, conv) ==
    QuantizeWith(p, find_nearest_valid(p, prec), prec, conv)

\* mutant: the offset is left out of the sum
AddTranslate_Dropped(pp, t) == FPoint(pp.x * Unit, pp.y * Unit)

\* impl Add<FPoint> for PebblePoint
AddTranslate(pp, t) == FPoint(pp.x * Unit + t.x, pp.y * Unit + t.y)

(***************************************************************************)
(* color.rs                                                                *)
(***************************************************************************)
Level == 85
ConvertBias == 42
AShift == 6
RShift == 4
GShift == 2

Color(r, g, b, a) == [r |-> r, g |-> g, b |-> b, a |-> a]

\* u8 << n: the bits shifted out of the byte are lost
Shl8(v, n) == (v * (2 ^ n)) % (U8Max + 1)

RECURSIVE BitOr(_, _)
BitOr(x, y) ==
    IF x = 0 THEN y
    ELSE IF y = 0 THEN x
    ELSE (IF x % 2 = 1 \/ y % 2 = 1 THEN 1 ELSE 0) + 2 * BitOr(x \div 2, y \div 2)

RECURSIVE BitAnd(_, _)
BitAnd(x, y) ==
    IF x = 0 \/ y = 0 THEN 0
    ELSE (IF x % 2 = 1 /\ y % 2 = 1 THEN 1 ELSE 0) + 2 * BitAnd(x \div 2, y \div 2)

\* PebbleColor::nothing
nothing == 0

\* PebbleColor::from_color: the channels are shifted as they are
from_color(c) ==
    BitOr(BitOr(Shl8(c.a, AShift), Shl8(c.r, RShift)),
          BitOr(Shl8(c.g, GShift), c.b))

\* (c / 85) * 85 on u8
TruncateChannel(c) == (c \div Level) * Level

\* PebbleColor::from_color_with_truncate
from_color_with_truncate(c) ==
    LET a == TruncateChannel(c.a)
    IN  IF a = 0 THEN nothing
        ELSE from_color(Color(TruncateChannel(c.r), TruncateChannel(c.g),
                              TruncateChannel(c.b), a))

\* IEEE round to nearest, ties to even, of n / d (n >= 0, d > 0)
RoundHalfEven(n, d) ==
    LET q == n \div d
        r == n % d
    IN  IF 2 * r < d THEN q
        ELSE IF 2 * r > d THEN q + 1
        ELSE IF q % 2 = 0 THEN q ELSE q + 1

\* The f32 quotient x / d of two small positive integers with 1/4 <= x/d < 4,
\* as [m, e] standing for m / 2^e with a 24-bit significand m.
F32Div(x, d) ==
    LET e == IF x >= 2 * d THEN 22
             ELSE IF x >= d THEN 23
             ELSE IF 2 * x >= d THEN 24 ELSE 25
    IN  [m |-> RoundHalfEven(x * (2 ^ e), d), e |-> e]

\* The f32 product of f (a result of F32Div) and a small positive integer k,
\* truncated towards zero as the cast to an integer does.
F32MulTrunc(f, k) ==
    LET p == f.m * k
        s == IF p < 2 ^ 30 THEN 6 ELSE 7
        m == RoundHalfEven(p, 2 ^ s)
    IN  (m * (2 ^ s)) \div (2 ^ f.e)

\* `as u8` of a non-negative f32: saturating
CastU8(n) == IF n < 0 THEN 0 ELSE IF n > U8Max THEN U8Max ELSE n

\* (((c as f32 + 42_f32) / 85_f32) * 85_f32) as u8
ConvertChannel(c) == CastU8(F32MulTrunc(F32Div(c + ConvertBias, Level), Level))

\* PebbleColor::from_color_with_convert
from_color_with_convert(c) ==
    LET a == ConvertChannel(c.a)
    IN  IF a = 0 THEN nothing
        ELSE from_color(Color(ConvertChannel(c.r), ConvertChannel(c.g),
                              ConvertChannel(c.b), a))

get_a(pc) == BitAnd(pc, 192) \div 64
get_r(pc) == BitAnd(pc, 48) \div 16
get_g(pc) == BitAnd(pc, 12) \div 4
get_b(pc) == BitAnd(pc, 3)
is_black(pc) == BitAnd(pc, 63) = 0

TruncateColors == {"Truncate", "Keep"}

\* the match on truncate_color in create_command
Quantize(c, policy) ==
    IF policy = "Truncate" THEN from_color_with_truncate(c)
    ELSE from_color_with_convert(c)


(***************************************************************************)
(* image.rs                                                                *)
(***************************************************************************)
DRAW_COMMAND_VERSION == 1
DRAW_COMMAND_TYPE_PATH == 1
DRAW_COMMAND_TYPE_CIRCLE == 2
DRAW_COMMAND_TYPE_PRECISE_PATH == 3
DRAW_COMMAND_HEADER_SIZE == 9
CircleExtra == 6

DrawOptions(translate, stroke_width, stroke_color, fill_color, prec, conv) ==
    [translate |-> translate, stroke_width |-> stroke_width,
     stroke_color |-> stroke_color, fill_color |-> fill_color,
     precision |-> prec, conversion |-> conv]

Path(points, open, options) ==
    [kind |-> "Path", points |-> points, open |-> open, options |-> options]

Circle(center, radius, options) ==
    [kind |-> "Circle", center |-> center, radius |-> radius, options |-> options]

\* write_u16::<LittleEndian> of a value cast to u16, write_u32 likewise
U16LE(v) == <<(v % 65536) % 256, (v % 65536) \div 256>>
U32LE(v) == <<v % 256, (v \div 256) % 256, (v \div 65536) % 256, (v \div 16777216) % 256>>

\* "PDCI".as_bytes()
Magic == <<80, 68, 67, 73>>

\* One point of the loop of a Path: r is the translated point quantized
\* again.  The first failure ends the loop, with the bytes written so far
\* left in the writer.
RECURSIVE WritePoints(_, _, _)
WritePoint(r, rest, options, bytes) ==
    IF ~r.ok THEN [ok |-> FALSE, err |-> r.err, bytes |-> bytes]
    ELSE WritePoints(rest, options, bytes \o U16LE(r.point.x) \o U16LE(r.point.y))

WritePoints(points, options, bytes) ==
    IF points = << >> THEN [ok |-> TRUE, bytes |-> bytes]
    ELSE WritePoint(pebble_coordinates(AddTranslate(Head(points), options.translate),
                                       options.precision, options.conversion),
                    Tail(points), options, bytes)

\* mutant: stroke width written before stroke colour
PathHeader_WidthFirst(c) ==
    <<IF c.options.precision = "Normal" THEN DRAW_COMMAND_TYPE_PATH
      ELSE DRAW_COMMAND_TYPE_PRECISE_PATH,
      0, c.options.stroke_width, c.options.stroke_color, c.options.fill_color,
      IF c.open THEN 1 ELSE 0, 0>> \o U16LE(Len(c.points))

PathHeader(c) ==
    <<IF c.options.precision = "Normal" THEN DRAW_COMMAND_TYPE_PATH
      ELSE DRAW_COMMAND_TYPE_PRECISE_PATH,
      0, c.options.stroke_color, c.options.stroke_width, c.options.fill_color,
      IF c.open THEN 1 ELSE 0, 0>> \o U16LE(Len(c.points))

\* the value returned once the writes are done
Returned(w, n) == IF w.ok THEN [ok |-> TRUE, bytes |-> w.bytes, n |-> n] ELSE w

\* DrawCommand::serialize on an empty writer: the bytes written and, on
\* success, the number returned.
SerializePath(c) ==
    Returned(WritePoints(c.points, c.options, PathHeader(c)),
             DRAW_COMMAND_HEADER_SIZE + Len(c.points) * 4)

\* mutant: the center written before the radius
CircleRecord_CenterFirst(c, r) ==
    IF ~r.ok THEN [ok |-> FALSE, err |-> r.err, bytes |-> << >>]
    ELSE [ok |-> TRUE,
          bytes |-> <<DRAW_COMMAND_TYPE_CIRCLE, 0, c.options.stroke_color,
                      c.options.stroke_width, c.options.fill_color>>
                    \o U16LE(r.point.x) \o U16LE(r.point.y) \o U16LE(c.radius),
          n |-> DRAW_COMMAND_HEADER_SIZE + CircleExtra]

\* the Circle arm once the center r is quantized: nothing is written before
CircleRecord(c, r) ==
    IF ~r.ok THEN [ok |-> FALSE, err |-> r.err, bytes |-> << >>]
    ELSE [ok |-> TRUE,
          bytes |-> <<DRAW_COMMAND_TYPE_CIRCLE, 0, c.options.stroke_color,
                      c.options.stroke_width, c.options.fill_color>>
                    \o U16LE(c.radius) \o U16LE(r.point.x) \o U16LE(r.point.y),
          n |-> DRAW_COMMAND_HEADER_SIZE + CircleExtra]

SerializeCircle(c) ==
    CircleRecord(c, pebble_coordinates(AddTranslate(c.center, c.options.translate),
                                       c.options.precision, c.options.conversion))

SerializeCommand(c) ==
    IF c.kind = "Path" THEN SerializePath(c) ELSE SerializeCircle(c)

\* PebbleImage::serialize_header
serialize_header(img) ==
    <<DRAW_COMMAND_VERSION, 0>> \o U16LE(img.size.x) \o U16LE(img.size.y)

\* the loop over the commands, writing into the buffer
RECURSIVE WriteCommands(_, _)
AfterCommand(r, rest, buf) ==
    IF ~r.ok THEN [ok |-> FALSE, err |-> r.err, bytes |-> buf \o r.bytes]
    ELSE WriteCommands(rest, buf \o r.bytes)

WriteCommands(commands, buf) ==
    IF commands = << >> THEN [ok |-> TRUE, bytes |-> buf]
    ELSE AfterCommand(SerializeCommand(Head(commands)), Tail(commands), buf)

\* mutant: the length field counts the whole file
WriteOut_WholeLength(b) ==
    IF ~b.ok THEN [ok |-> FALSE, err |-> b.err, bytes |-> << >>]
    ELSE [ok |-> TRUE,
          bytes |-> Magic \o U32LE(Len(b.bytes) + Len(Magic) + 4) \o b.bytes]

\* the buffer reaches the sink only when every command was serialized
WriteOut(b) ==
    IF ~b.ok THEN [ok |-> FALSE, err |-> b.err, bytes |-> << >>]
    ELSE [ok |-> TRUE, bytes |-> Magic \o U32LE(Len(b.bytes)) \o b.bytes]

\* PebbleImage::serialize into a sink that takes every byte offered (a Vec, a
\* file)
serialize(img) ==
    WriteOut(WriteCommands(img.commands,
                           serialize_header(img) \o U16LE(Len(img.commands))))

(***************************************************************************)
(* color.rs: Color::try_from_hex and Color::with_opacity.  A string is a   *)
(* sequence of one-character strings.                                      *)
(***************************************************************************)
HexDigits == <<"0", "1", "2", "3", "4", "5", "6", "7", "8", "9",
               "a", "b", "c", "d", "e", "f">>
IsHexDigit(ch) == \E i \in 1..Len(HexDigits) : HexDigits[i] = ch
HexValue(ch) == (CHOOSE i \in 1..Len(HexDigits) : HexDigits[i] = ch) - 1

\* u8::from_str_radix(&hex[i..i+2], 16) succeeds
ValidPair(hex, i) == IsHexDigit(hex[i]) /\ IsHexDigit(hex[i + 1])
PairValue(hex, i) == 16 * HexValue(hex[i]) + HexValue(hex[i + 1])

\* hex.trim_start_matches('#')
RECURSIVE TrimHash(_)
TrimHash(str) ==
    IF str # << >> /\ Head(str) = "#" THEN TrimHash(Tail(str)) ELSE str

Panic == [ok |-> FALSE, err |-> "panic"]
Fails(e) == [ok |-> FALSE, err |-> e]

\* the alpha digits: read only when the string has exactly 8 characters,
\* unwrap_or(255)
AlphaOf(hex) ==
    IF Len(hex) = 8 /\ ValidPair(hex, 7) THEN PairValue(hex, 7) ELSE U8Max

\* try_from_hex after the trim: a slice past the end of the string panics,
\* a pair that is no hex number is InvalidColor
ParseHex(hex) ==
    IF Len(hex) < 2 THEN Panic
    ELSE IF ~ValidPair(hex, 1) THEN Fails("InvalidColor")
    ELSE IF Len(hex) < 4 THEN Panic
    ELSE IF ~ValidPair(hex, 3) THEN Fails("InvalidColor")
    ELSE IF Len(hex) < 6 THEN Panic
    ELSE IF ~ValidPair(hex, 5) THEN Fails("InvalidColor")
    ELSE [ok |-> TRUE,
          color |-> Color(PairValue(hex, 1), PairValue(hex, 3), PairValue(hex, 5),
                          AlphaOf(hex))]

try_from_hex(str) == ParseHex(TrimHash(str))

with_opacity(c, opacity) == Color(c.r, c.g, c.b, opacity)

(***************************************************************************)
(* svg_converter.rs: create_command.                                       *)
(*                                                                         *)
(* An Option is a sequence of length 0 or 1.  The string of a numeric      *)
(* attribute is modelled by what str::parse makes of it: Num(v) for a      *)
(* string that parses to v sixteenths, Bad for one that does not parse.    *)
(***************************************************************************)
None == << >>
Some(v) == <<v>>
IsSome(o) == o # << >>
Num(v) == <<"num", v>>
Bad == <<"bad">>
IsNum(str) == str[1] = "num"

StyleKeys == {"stroke", "stroke-width", "fill", "opacity", "stroke-opacity", "fill-opacity"}
GeometryKeys == {"cx", "cy", "r", "z", "x1", "y1", "x2", "y2", "x", "y", "width", "height"}

\* Option::or
OrElse(a, b) == IF IsSome(a) THEN a ELSE b

\* mutant: the style entry hides the attribute
Merged_StyleFirst(node, key) == OrElse(node.style[key], node.attrs[key])

\* style.extend(attributes); style.get(key): the attribute hides the style entry
Merged(node, key) == OrElse(node.attrs[key], node.style[key])

\* f32 -> integer casts truncate towards zero
TruncToInt(v) == IF v >= 0 THEN v \div Unit ELSE -((-v) \div Unit)

\* style.get("stroke-width").map_or(group, |w| w.parse::<f32>().map(|n| n as u8).ok())
ResolveWidth(m, group_width) ==
    IF ~IsSome(m) THEN group_width
    ELSE IF IsNum(m[1]) THEN Some(CastU8(TruncToInt(m[1][2])))
    ELSE None

\* style.get(key).map_or(group, |o| Some(o.parse().unwrap())).unwrap_or(1.0):
\* Num(v), or Bad when the unwrap panics
ResolveOpacity(m, group_opacity) ==
    IF IsSome(m) THEN m[1]
    ELSE IF IsSome(group_opacity) THEN Num(group_opacity[1])
    ELSE Num(Unit)

\* (opacity * x_opacity * 255.0) as u8
AlphaByte(opacity, x_opacity) == CastU8((opacity * x_opacity * U8Max) \div (Unit * Unit))

\* color.map(|c| Color::try_from_hex(c).unwrap_or_default()).unwrap_or_default()
HexOrDefault(r) == IF r.ok THEN r ELSE IF r.err = "panic" THEN r
                   ELSE [ok |-> TRUE, color |-> Color(0, 0, 0, 0)]
ColorOrDefault(c) ==
    IF IsSome(c) THEN HexOrDefault(try_from_hex(c[1]))
    ELSE [ok |-> TRUE, color |-> Color(0, 0, 0, 0)]

\* "if the fill color is black, it will be treated as transparent"
FillByte(pc) == IF is_black(pc) THEN nothing ELSE pc

\* stroke width and stroke colour, each forced to zero by the other
WidthGiven(stroke_pc, width) == IF stroke_pc = nothing THEN 0 ELSE width
\* mutant: a zero stroke width leaves the stroke colour as it is
StrokeGiven_Kept(stroke_pc, width) == stroke_pc

StrokeGiven(stroke_pc, width) == IF width = 0 THEN nothing ELSE stroke_pc
StrokeWidth(stroke_pc, width_opt) ==
    WidthGiven(stroke_pc, IF IsSome(width_opt) THEN width_opt[1] ELSE 1)

\* the DrawOptions of create_command from the quantized colours
MakeOptions(translation, width_opt, stroke_pc, fill_pc, prec, conv) ==
    DrawOptions(translation,
                StrokeWidth(stroke_pc, width_opt),
                StrokeGiven(stroke_pc, StrokeWidth(stroke_pc, width_opt)),
                FillByte(fill_pc), prec, conv)

\* the presentation values of a node over its group: what create_command
\* reads before it quantizes the colours
Resolved(node, group) ==
    [width |-> ResolveWidth(Merged(node, "stroke-width"), group.stroke_width),
     opacity |-> ResolveOpacity(Merged(node, "opacity"), group.opacity),
     stroke_opacity |-> ResolveOpacity(Merged(node, "stroke-opacity"), group.stroke_opacity),
     fill_opacity |-> ResolveOpacity(Merged(node, "fill-opacity"), group.fill_opacity),
     stroke |-> ColorOrDefault(OrElse(Merged(node, "stroke"), group.stroke_color)),
     fill |-> ColorOrDefault(OrElse(Merged(node, "fill"), group.fill_color))]

\* an unwrap of a failed parse, or a slice past the end of a colour string
StylePanics(st) ==
    \/ ~IsNum(st.opacity) \/ ~IsNum(st.stroke_opacity) \/ ~IsNum(st.fill_opacity)
    \/ ~st.stroke.ok \/ ~st.fill.ok

OptionsOf(st, translation, truncate, prec, conv) ==
    MakeOptions(translation, st.width,
                Quantize(with_opacity(st.stroke.color,
                                      AlphaByte(st.opacity[2], st.stroke_opacity[2])),
                         truncate),
                Quantize(with_opacity(st.fill.color,
                                      AlphaByte(st.opacity[2], st.fill_opacity[2])),
                         truncate),
                prec, conv)

(***************************************************************************)
(* svg_converter.rs: the shapes.                                           *)
(***************************************************************************)
\* points.iter().map(pebble_coordinates).collect::<Result<Vec<_>, _>>()?
RECURSIVE QuantizeAll(_, _, _, _)
QuantizeNext(r, rest, prec, conv, acc) ==
    IF ~r.ok THEN r ELSE QuantizeAll(rest, prec, conv, Append(acc, r.point))

QuantizeAll(fps, prec, conv, acc) ==
    IF fps = << >> THEN [ok |-> TRUE, points |-> acc]
    ELSE QuantizeNext(pebble_coordinates(Head(fps), prec, conv), Tail(fps), prec, conv, acc)

\* Ok(DrawCommand::Path { points, open, options }) of the quantized points
PathOf(r, open, options) ==
    IF r.ok THEN [ok |-> TRUE, command |-> Some(Path(r.points, open, options))] ELSE r

\* node.attribute(k).ok_or(e)?.parse::<f32>().map_err(|_| e)? succeeds for
\* every key of keys
AllParse(node, keys) ==
    \A k \in keys : IsSome(node.geom[k]) /\ IsNum(node.geom[k][1])
Value(node, k) == node.geom[k][1][2]

\* one step of the loop of parse_path over the segments; st is
\* [points, current_point]
FirstOrDefault(points) == IF points = << >> THEN FPoint(0, 0) ELSE points[1]
LastOrDefault(points) == IF points = << >> THEN FPoint(0, 0) ELSE points[Len(points)]

Destination(seg, cur) ==
    CASE seg.kind = "To" ->
            IF seg.abs THEN FPoint(seg.x, seg.y)
            ELSE FPoint(seg.x + cur.x, seg.y + cur.y)
      [] seg.kind = "H" ->
            IF seg.abs THEN FPoint(seg.x, cur.y)
            ELSE FPoint(seg.x + cur.x, cur.y + cur.y)
      [] seg.kind = "V" ->
            IF seg.abs THEN FPoint(cur.x, seg.y)
            ELSE FPoint(cur.x + cur.x, seg.y + cur.y)

Pushed(st, pt) == [points |-> Append(st.points, pt), current |-> pt]

SegmentStep(st, seg) ==
    IF seg.kind = "Z"
    THEN IF st.current # FirstOrDefault(st.points)
         THEN [points |-> Append(st.points, st.points[1]), current |-> st.current]
         ELSE st
    ELSE Pushed(st, Destination(seg, st.current))

RECURSIVE WalkSegments(_, _)
WalkSegments(segs, st) ==
    IF segs = << >> THEN st.points
    ELSE WalkSegments(Tail(segs), SegmentStep(st, Head(segs)))

\* f32::floor of both coordinates
Floor(pt) == FPoint((pt.x \div Unit) * Unit, (pt.y \div Unit) * Unit)
FloorAll(points) == [i \in 1..Len(points) |-> Floor(points[i])]

IsOpen(points) == FirstOrDefault(points) # LastOrDefault(points)

\* points.pop() when the path is not open
\* mutant: the closed path keeps its last point
Popped_Kept(points) == points

Popped(points) ==
    IF IsOpen(points) \/ points = << >> THEN points
    ELSE SubSeq(points, 1, Len(points) - 1)

PathFromFloored(points, options) ==
    PathOf(QuantizeAll(Popped(points), options.precision, options.conversion, << >>),
           IsOpen(points), options)

\* node.d: None, Some(Bad) for a string PathParser rejects, or
\* Some(<<"segs", segments>>)
parse_path(node, options) ==
    IF ~IsSome(node.d) THEN PathFromFloored(<< >>, options)
    ELSE IF node.d[1] = Bad THEN Fails("SvgTypesError")
    ELSE PathFromFloored(
             FloorAll(WalkSegments(node.d[1][2],
                                   [points |-> << >>, current |-> FPoint(0, 0)])),
             options)

CircleOf(r, radius, options) ==
    IF r.ok THEN [ok |-> TRUE, command |-> Some(Circle(r.point, radius, options))] ELSE r

parse_circle(node, options) ==
    IF ~AllParse(node, {"cx", "cy"}) THEN Fails("UnsupportedCircle")
    ELSE IF ~AllParse(node, {IF IsSome(node.geom["r"]) THEN "r" ELSE "z"})
    THEN Fails("UnsupportedCircle")
    ELSE CircleOf(pebble_coordinates(FPoint(Value(node, "cx"), Value(node, "cy")),
                                     "Normal", options.conversion),
                  CastU16(TruncToInt(Value(node, IF IsSome(node.geom["r"]) THEN "r" ELSE "z"))),
                  options)

\* get_points_from_str: node.points is None or Some of a sequence of chunks
\* <<x, y>>, each Num or Bad
ChunksParse(chunks) ==
    \A i \in 1..Len(chunks) : IsNum(chunks[i][1]) /\ IsNum(chunks[i][2])
ChunkPoints(chunks) ==
    [i \in 1..Len(chunks) |-> FPoint(chunks[i][1][2], chunks[i][2][2])]

PointsShape(node, open, options) ==
    IF ~IsSome(node.points) THEN Fails("InvalidPolyline")
    ELSE IF ~ChunksParse(node.points[1]) THEN Fails("ParseError")
    ELSE PathOf(QuantizeAll(ChunkPoints(node.points[1]), options.precision,
                            options.conversion, << >>),
                open, options)

parse_polyline(node, options) == PointsShape(node, TRUE, options)
parse_polygon(node, options) == PointsShape(node, FALSE, options)

parse_line(node, options) ==
    IF ~AllParse(node, {"x1", "y1", "x2", "y2"}) THEN Fails("InvalidPolyline")
    ELSE PathOf(QuantizeAll(<<FPoint(Value(node, "x1"), Value(node, "y1")),
                              FPoint(Value(node, "x2"), Value(node, "y2"))>>,
                            options.precision, options.conversion, << >>),
                TRUE, options)

\* mutant: the last two corners in the other order
Corners_Crossed(x, y, width, height) ==
    <<FPoint(x, y), FPoint(x + width, y), FPoint(x, y + height),
      FPoint(x + width, y + height)>>

Corners(x, y, width, height) ==
    <<FPoint(x, y), FPoint(x + width, y), FPoint(x + width, y + height),
      FPoint(x, y + height)>>

parse_rect(node, options) ==
    IF ~AllParse(node, {"x", "y", "width", "height"}) THEN Fails("InvalidPolyline")
    ELSE PathOf(QuantizeAll(Corners(Value(node, "x"), Value(node, "y"),
                                    Value(node, "width"), Value(node, "height")),
                            options.precision, options.conversion, << >>),
                FALSE, options)

\* the match on the tag at the end of create_command
Dispatch(node, options) ==
    CASE node.tag = "path" -> parse_path(node, options)
      [] node.tag = "circle" -> parse_circle(node, options)
      [] node.tag = "polyline" -> parse_polyline(node, options)
      [] node.tag = "polygon" -> parse_polygon(node, options)
      [] node.tag = "line" -> parse_line(node, options)
      [] node.tag = "rect" -> parse_rect(node, options)
      [] node.tag \in {"g", "layer"} -> Panic
      [] OTHER -> [ok |-> TRUE, command |-> None]

CreateWith(st, translation, truncate, conv, node, prec) ==
    IF StylePanics(st) THEN Panic
    ELSE Dispatch(node, OptionsOf(st, translation, truncate, prec, conv))

\* SvgConverter::create_command; prec is self.precision
create_command(translation, truncate, group, conv, node, prec) ==
    CreateWith(Resolved(node, group), translation, truncate, conv, node, prec)

(***************************************************************************)
(* svg_converter.rs: the walk over the document.                           *)
(*                                                                         *)
(* An element is a node with the attributes get_commands reads as well:    *)
(* display, transform and the children.  Num(v) stands for the shortest    *)
(* decimal spelling of v, Px(v) for that spelling followed by "px", Bad    *)
(* for a text without digits.  A transform attribute is None, Some(Bad)    *)
(* for a text TransformListParser rejects, or Some(<<"list", tokens>>).    *)
(***************************************************************************)
\* GroupOptions::default()
NoGroup ==
    [opacity |-> None, fill_color |-> None, fill_opacity |-> None,
     stroke_color |-> None, stroke_opacity |-> None, stroke_width |-> None]

Px(v) == <<"px", v>>

Element(node, display, transform, children) ==
    [tag |-> node.tag, attrs |-> node.attrs, style |-> node.style, geom |-> node.geom,
     points |-> node.points, d |-> node.d,
     display |-> display, transform |-> transform, children |-> children]

Token(kind, tx, ty) == [kind |-> kind, tx |-> tx, ty |-> ty]

\* transform_list.into_iter().find(Translate).unwrap_or(Translate { 0, 0 })
RECURSIVE FirstTranslate(_)
FirstTranslate(tokens) ==
    IF tokens = << >> THEN FPoint(0, 0)
    ELSE IF Head(tokens).kind = "Translate" THEN FPoint(Head(tokens).tx, Head(tokens).ty)
    ELSE FirstTranslate(Tail(tokens))

get_child_translation(child) ==
    IF ~IsSome(child.transform) THEN [ok |-> TRUE, point |-> FPoint(0, 0)]
    ELSE IF child.transform[1] = Bad THEN Fails("SvgTypesError")
    ELSE [ok |-> TRUE, point |-> FirstTranslate(child.transform[1][2])]

\* mutant: the accumulated translation is dropped
AddPoint_OwnOnly(p, q) == p

\* FPoint + FPoint
AddPoint(p, q) == FPoint(p.x + q.x, p.y + q.y)

\* child.attribute(key).map(|o| o.parse().unwrap()) into an Option<f64>
GroupNumber(a) ==
    IF ~IsSome(a) THEN [ok |-> TRUE, value |-> None]
    ELSE IF IsNum(a[1]) THEN [ok |-> TRUE, value |-> Some(a[1][2])]
    ELSE Panic

\* the characters of "1234567890." of the text, parsed as u8 and unwrapped:
\* a sign and a unit are dropped, a decimal point or a value over 255 panics
Magnitude(v) == IF v < 0 THEN -v ELSE v
DigitsAsU8(str) ==
    IF str = Bad THEN Panic
    ELSE IF str[2] % Unit # 0 \/ Magnitude(str[2]) \div Unit > U8Max THEN Panic
    ELSE [ok |-> TRUE, value |-> Some(Magnitude(str[2]) \div Unit)]
GroupWidth(a) ==
    IF ~IsSome(a) THEN [ok |-> TRUE, value |-> None] ELSE DigitsAsU8(a[1])

\* the GroupOptions built for the children of a g from the attributes of
\* that g alone
SubgroupOf(opacity, fill_opacity, stroke_opacity, stroke_width, child) ==
    IF ~opacity.ok \/ ~fill_opacity.ok \/ ~stroke_opacity.ok \/ ~stroke_width.ok
    THEN Panic
    ELSE [ok |-> TRUE,
          options |-> [opacity |-> opacity.value,
                       fill_color |-> child.attrs["fill"],
                       fill_opacity |-> fill_opacity.value,
                       stroke_color |-> child.attrs["stroke"],
                       stroke_opacity |-> stroke_opacity.value,
                       stroke_width |-> stroke_width.value]]

subgroup_options(child) ==
    SubgroupOf(GroupNumber(child.attrs["opacity"]),
               GroupNumber(child.attrs["fill-opacity"]),
               GroupNumber(child.attrs["stroke-opacity"]),
               GroupWidth(child.attrs["stroke-width"]), child)

\* SvgConverter::get_commands: cx is [truncate_color, conversion, precision]
RECURSIVE get_commands(_, _, _, _)
RECURSIVE WalkChildren(_, _, _, _, _)

\* commands.extend(self.get_commands(..)?)
Extended(r, rest, translation, group, cx, acc) ==
    IF ~r.ok THEN r ELSE WalkChildren(rest, translation, group, cx, acc \o r.commands)

GroupStep(sub, tr, child, rest, translation, group, cx, acc) ==
    IF ~sub.ok THEN sub
    ELSE IF ~tr.ok THEN tr
    ELSE Extended(get_commands(AddPoint(tr.point, translation), sub.options, cx, child),
                  rest, translation, group, cx, acc)

\* if let Some(command) = command { commands.push(command) }
PushedCommand(r, rest, translation, group, cx, acc) ==
    IF ~r.ok THEN r
    ELSE WalkChildren(rest, translation, group, cx,
                      IF IsSome(r.command) THEN Append(acc, r.command[1]) ELSE acc)

ShapeStep(tr, child, rest, translation, group, cx, acc) ==
    IF ~tr.ok THEN tr
    ELSE PushedCommand(create_command(AddPoint(tr.point, translation), cx.truncate_color,
                                      group, cx.conversion, child, cx.precision),
                       rest, translation, group, cx, acc)

\* mutant: a node with display="none" is walked like any other
ChildStep_ShowsHidden(child, rest, translation, group, cx, acc) ==
    IF child.tag = "layer" THEN WalkChildren(rest, translation, group, cx, acc)
    ELSE IF child.tag = "g"
    THEN GroupStep(subgroup_options(child), get_child_translation(child), child, rest,
                   translation, group, cx, acc)
    ELSE ShapeStep(get_child_translation(child), child, rest, translation, group, cx, acc)

ChildStep(child, rest, translation, group, cx, acc) ==
    IF child.display = Some("none") THEN WalkChildren(rest, translation, group, cx, acc)
    ELSE IF child.tag = "layer" THEN WalkChildren(rest, translation, group, cx, acc)
    ELSE IF child.tag = "g"
    THEN GroupStep(subgroup_options(child), get_child_translation(child), child, rest,
                   translation, group, cx, acc)
    ELSE ShapeStep(get_child_translation(child), child, rest, translation, group, cx, acc)

WalkChildren(children, translation, group, cx, acc) ==
    IF children = << >> THEN [ok |-> TRUE, commands |-> acc]
    ELSE ChildStep(Head(children), Tail(children), translation, group, cx, acc)

get_commands(translation, group, cx, node) ==
    WalkChildren(node.children, translation, group, cx, << >>)

\* SvgConverter::get_viewbox.  doc.viewBox is None, Some(Bad) for a text
\* ViewBox::from_str rejects, or Some(<<"box", x, y, w, h>>); doc.width and
\* doc.height are the attributes of the root element
RootLength(a) == IF ~IsSome(a) THEN Num(0) ELSE a[1]

get_viewbox(doc) ==
    IF IsSome(doc.viewBox)
    THEN IF doc.viewBox[1] = Bad THEN Fails("InvalidViewBox")
         ELSE [ok |-> TRUE,
               view_box |-> [x |-> doc.viewBox[1][2], y |-> doc.viewBox[1][3],
                             w |-> doc.viewBox[1][4], h |-> doc.viewBox[1][5]]]
    ELSE IF ~IsNum(RootLength(doc.width)) \/ ~IsNum(RootLength(doc.height)) THEN Panic
    ELSE [ok |-> TRUE,
          view_box |-> [x |-> 0, y |-> 0, w |-> RootLength(doc.width)[2],
                        h |-> RootLength(doc.height)[2]]]

ImageOf(size, commands) ==
    IF ~size.ok THEN size
    ELSE IF ~commands.ok THEN commands
    ELSE [ok |-> TRUE, image |-> [size |-> size.point, commands |-> commands.commands]]

ParseWith(vb, doc, cx) ==
    IF ~vb.ok THEN vb
    ELSE ImageOf(pebble_coordinates(FPoint(vb.view_box.w, vb.view_box.h),
                                    cx.precision, cx.conversion),
                 get_commands(FPoint(-vb.view_box.x, -vb.view_box.y), NoGroup, cx, doc.root))

\* SvgConverter::parse_svg_image; doc.xml is FALSE for a content that
\* roxmltree::Document::parse rejects
parse_svg_image(doc, cx) ==
    IF ~doc.xml THEN Fails("XmlError") ELSE ParseWith(get_viewbox(doc), doc, cx)

(***************************************************************************)
(* Results of operations that have not run yet.                            *)
(***************************************************************************)
NotRun == [ok |-> FALSE, err |-> "NotRun", bytes |-> << >>]
Ran(r) == IF r.ok THEN TRUE ELSE r.err # "NotRun"

ZeroPoint == FPoint(0, 0)
NoColor == Color(0, 0, 0, 0)
NoCommand == Circle(PebblePoint(0, 0), 0,
                    DrawOptions(ZeroPoint, 0, 0, 0, "Normal", "RequireExact"))
NoImage == [size |-> PebblePoint(0, 0), commands |-> << >>]

\* a node, as far as create_command reads it
NoStyle == [k \in StyleKeys |-> None]
NoGeometry == [k \in GeometryKeys |-> None]
Node(tag, attrs, style, geom, points, d) ==
    [tag |-> tag, attrs |-> attrs, style |-> style, geom |-> geom,
     points |-> points, d |-> d]

\* the arguments of one call of create_command
Call(translation, truncate, group, conv, node, prec) ==
    [translation |-> translation, truncate_color |-> truncate, group_options |-> group,
     conversion |-> conv, node |-> node, precision |-> prec]
NoShape ==
    Call(ZeroPoint, "Truncate", NoGroup, "RequireExact",
         Node("", NoStyle, NoStyle, NoGeometry, None, None), "Normal")

\* the arguments of one call of parse_svg_image: the content as roxmltree
\* and svgtypes read it, and the settings of the converter
Doc(xml, viewBox, width, height, children) ==
    [xml |-> xml, viewBox |-> viewBox, width |-> width, height |-> height,
     root |-> [tag |-> "svg", children |-> children]]
Conversion(content, truncate, conv, prec) ==
    [content |-> content, truncate_color |-> truncate, conversion |-> conv,
     precision |-> prec]
NoDocument ==
    Conversion(Doc(TRUE, None, None, None, << >>), "Truncate", "RequireExact", "Normal")

\* the segments of a path with the options of its command, and the state
\* of the loop of parse_path: the segments still to come, points and
\* current_point
Trace(segments, options) == [segments |-> segments, options |-> options]
Start(segments) ==
    [rest |-> segments, points |-> << >>, current |-> FPoint(0, 0)]
NoPath == Trace(<< >>, DrawOptions(ZeroPoint, 0, 0, 0, "Normal", "RequireExact"))
NoWalk == Start(<< >>)

IdlePoint ==
    /\ point = ZeroPoint /\ precision = "Normal" /\ conversion = "RequireExact"
    /\ device = NotRun
IdleColor ==
    /\ color = NoColor /\ truncate_color = "Truncate" /\ pebble_color = nothing
    /\ quantized = NotRun /\ requantized = NotRun
IdleCommand == command = NoCommand /\ written = NotRun
IdleImage == image = NoImage /\ sink = NotRun
IdleShape == shape = NoShape /\ created = NotRun
IdleDocument == document = NoDocument /\ converted = NotRun /\ output = NotRun
IdlePath == path = NoPath /\ walk = NoWalk /\ traced = NotRun

SeqsUpTo(S, n) == UNION {[1..k -> S] : k \in 0..n}

(***************************************************************************)
(* SpecPoint: the quantizer applied to one point.                          *)
(***************************************************************************)
YCoords == {-40, -24, -8, 0, 3, 8, 18, 40}
FPoints == {FPoint(x, y) : x \in (-MaxNeg)..MaxPos, y \in YCoords}

InitPoint ==
    /\ point \in FPoints
    /\ precision \in Precisions
    /\ conversion \in Conversions
    /\ device = NotRun
    /\ IdleColor /\ IdleCommand /\ IdleImage /\ IdleShape /\ IdleDocument /\ IdlePath

ToDevicePoint ==
    /\ ~Ran(device)
    /\ device' = pebble_coordinates(point, precision, conversion)
    /\ UNCHANGED <<point, precision, conversion, colorVars, commandVars, imageVars,
                   shapeVars, docVars, pathVars>>

NextPoint == ToDevicePoint
SpecPoint == InitPoint /\ [][NextPoint]_vars

(***************************************************************************)
(* SpecColor: one colour quantized under one policy, then its quantized    *)
(* channels quantized again.                                               *)
(***************************************************************************)
\* one channel sweeps the whole u8 range, the others take these values
ChannelSteps == {0, 255}
Channels == 0..U8Max
Colors ==
    {Color(r, g, b, a) : r \in Channels, g \in ChannelSteps, b \in ChannelSteps, a \in ChannelSteps}
    \cup {Color(r, g, b, a) : r \in ChannelSteps, g \in Channels, b \in ChannelSteps, a \in ChannelSteps}
    \cup {Color(r, g, b, a) : r \in ChannelSteps, g \in ChannelSteps, b \in Channels, a \in ChannelSteps}
    \cup {Color(r, g, b, a) : r \in ChannelSteps, g \in ChannelSteps, b \in ChannelSteps, a \in Channels}

\* the per-channel mapping of a policy
QuantizeChannel(c, policy) ==
    IF policy = "Truncate" THEN TruncateChannel(c) ELSE ConvertChannel(c)

QuantizeChannels(c, policy) ==
    [ok |-> TRUE,
     color |-> Color(QuantizeChannel(c.r, policy), QuantizeChannel(c.g, policy),
                     QuantizeChannel(c.b, policy), QuantizeChannel(c.a, policy))]

InitColor ==
    /\ color \in Colors
    /\ truncate_color \in TruncateColors
    /\ pebble_color = nothing
    /\ quantized = NotRun /\ requantized = NotRun
    /\ IdlePoint /\ IdleCommand /\ IdleImage /\ IdleShape /\ IdleDocument /\ IdlePath

QuantizeColor ==
    /\ ~Ran(quantized)
    /\ pebble_color' = Quantize(color, truncate_color)
    /\ quantized' = QuantizeChannels(color, truncate_color)
    /\ UNCHANGED <<color, truncate_color, requantized, pointVars, commandVars, imageVars,
                   shapeVars, docVars, pathVars>>

QuantizeAgain ==
    /\ Ran(quantized) /\ ~Ran(requantized)
    /\ requantized' = QuantizeChannels(quantized.color, truncate_color)
    /\ UNCHANGED <<color, truncate_color, pebble_color, quantized, pointVars,
                   commandVars, imageVars, shapeVars, docVars, pathVars>>

NextColor == QuantizeColor \/ QuantizeAgain
SpecColor == InitColor /\ [][NextColor]_vars

(***************************************************************************)
(* SpecCommand: one draw command serialized on its own.                    *)
(***************************************************************************)
PebblePoints ==
    {PebblePoint(x, y) : x \in {0, 10, 300}, y \in {0, 20}} \cup {PebblePoint(30, 40)}
Translates == {FPoint(0, 0), FPoint(5 * Unit, 6 * Unit), FPoint(4, 0), FPoint(1, 0),
               FPoint(-Unit, 0)}
\* <<stroke_width, stroke_color, fill_color>>
Styles == {<<2, 3, 4>>, <<0, 192, 255>>}
Radii == {25, 300}

OptionsOver(ts, precs, convs) ==
    {DrawOptions(t, st[1], st[2], st[3], pr, cv) :
        t \in ts, st \in Styles, pr \in precs, cv \in convs}

Commands ==
    LET opts == OptionsOver(Translates, Precisions, Conversions)
    IN  {Path(ps, o, op) : ps \in SeqsUpTo(PebblePoints, MaxPoints), o \in BOOLEAN, op \in opts}
        \cup {Circle(c, r, op) : c \in PebblePoints, r \in Radii, op \in opts}

InitCommand ==
    /\ command \in Commands
    /\ written = NotRun
    /\ IdlePoint /\ IdleColor /\ IdleImage /\ IdleShape /\ IdleDocument /\ IdlePath

WriteCommand ==
    /\ ~Ran(written)
    /\ written' = SerializeCommand(command)
    /\ UNCHANGED <<command, pointVars, colorVars, imageVars, shapeVars, docVars, pathVars>>

NextCommand == WriteCommand
SpecCommand == InitCommand /\ [][NextCommand]_vars

(***************************************************************************)
(* Spec: an image is filled with commands and then serialized.             *)
(***************************************************************************)
Sizes == {PebblePoint(100, 200), PebblePoint(0, 300)}
ImageCommands ==
    LET opts == OptionsOver({FPoint(0, 0), FPoint(1, 0)}, {"Normal"}, {"RequireExact"})
                \cup OptionsOver({FPoint(0, 0), FPoint(1, 0)}, {"Precise"}, {"ConvertNoWarn"})
    IN  {Path(ps, TRUE, op) : ps \in SeqsUpTo({PebblePoint(10, 300)}, MaxPoints), op \in opts}
        \cup {Circle(PebblePoint(10, 300), 25, op) : op \in opts}

Init ==
    /\ image \in {[size |-> sz, commands |-> << >>] : sz \in Sizes}
    /\ sink = NotRun
    /\ IdlePoint /\ IdleColor /\ IdleCommand /\ IdleShape /\ IdleDocument /\ IdlePath

\* commands.push(command) while the image is built
PushCommand ==
    /\ ~Ran(sink)
    /\ Len(image.commands) < MaxCommands
    /\ \E c \in ImageCommands :
          image' = [image EXCEPT !.commands = Append(@, c)]
    /\ UNCHANGED <<sink, pointVars, colorVars, commandVars, shapeVars, docVars, pathVars>>

Serialize ==
    /\ ~Ran(sink)
    /\ sink' = serialize(image)
    /\ UNCHANGED <<image, pointVars, colorVars, commandVars, shapeVars, docVars, pathVars>>

Next == PushCommand \/ Serialize
Spec == Init /\ [][Next]_vars

(***************************************************************************)
(* SpecShape: create_command applied to one node.                          *)
(***************************************************************************)
\* colour strings, one character per element
HexBlack == <<"#", "0", "0", "0", "0", "0", "0">>
HexWhite == <<"#", "f", "f", "f", "f", "f", "f">>
HexBlue == <<"#", "0", "0", "0", "0", "f", "f">>
HexRed == <<"#", "f", "f", "0", "0", "0", "0">>
HexDark == <<"#", "5", "4", "5", "4", "5", "4">>
HexHalfBlack == <<"#", "0", "0", "0", "0", "0", "0", "8", "0">>
HexNone == <<"n", "o", "n", "e">>
HexShort == <<"#", "f", "f", "f">>
HexInvalid == <<"#", "g", "g", "0", "0", "0", "0">>
HexClearWhite == <<"#", "f", "f", "f", "f", "f", "f", "0", "0">>

Seg(kind, abs, x, y) == [kind |-> kind, abs |-> abs, x |-> x, y |-> y]

\* M 1 1 L 3 1 l 0 2 Z
ClosedTriangle ==
    <<Seg("To", TRUE, Unit, Unit), Seg("To", TRUE, 3 * Unit, Unit),
      Seg("To", FALSE, 0, 2 * Unit), Seg("Z", TRUE, 0, 0)>>
\* M 1 1 h 2 V 3
OpenCorner ==
    <<Seg("To", TRUE, Unit, Unit), Seg("H", FALSE, 2 * Unit, 0),
      Seg("V", TRUE, 0, 3 * Unit)>>

WithKeys(base, keys, v) == [k \in DOMAIN base |-> IF k \in keys THEN v ELSE base[k]]

\* every coordinate of a shape set to v, its extent to 2
GeometryAt(v) ==
    WithKeys(WithKeys(NoGeometry, {"cx", "cy", "x1", "y1", "y2", "x", "y"}, Some(Num(v))),
             {"r", "x2", "width", "height"}, Some(Num(2 * Unit)))
PointsAt(v) ==
    Some(<<<<Num(v), Num(v)>>, <<Num(2 * Unit), Num(v)>>, <<Num(2 * Unit), Num(2 * Unit)>>>>)

Tags == {"path", "circle", "polyline", "polygon", "line", "rect", "", "text"}

\* the shapes on the grid of both precisions, off it, and not parseable
Geometries ==
    {[geom |-> GeometryAt(v), points |-> PointsAt(v), d |-> Some(<<"segs", segs>>)] :
        v \in {Half, Unit + 5}, segs \in {ClosedTriangle, OpenCorner}}
    \cup {[geom |-> NoGeometry, points |-> None, d |-> None],
          [geom |-> WithKeys(GeometryAt(Half), {"cy", "y1", "y"}, Some(Bad)),
           points |-> Some(<<<<Num(Half), Bad>>>>), d |-> Some(Bad)]}

Plain == [geom |-> GeometryAt(Half), points |-> PointsAt(Half),
          d |-> Some(<<"segs", ClosedTriangle>>)]

\* nodes that differ in geometry, without any presentation attribute
GeometryCalls ==
    {Call(t, tc, NoGroup, cv, Node(tag, NoStyle, NoStyle, g.geom, g.points, g.d), pr) :
        t \in {ZeroPoint, FPoint(4, 0)}, tc \in TruncateColors, cv \in Conversions,
        tag \in Tags, g \in Geometries, pr \in Precisions}

\* nodes that differ in how the fill is given
FillCalls ==
    {Call(ZeroPoint, tc,
          [NoGroup EXCEPT !.fill_color = gf, !.opacity = go],
          "RequireExact",
          Node(tag, [NoStyle EXCEPT !["fill"] = af, !["fill-opacity"] = ao],
               [NoStyle EXCEPT !["fill"] = sf], Plain.geom, Plain.points, Plain.d),
          "Normal") :
        tc \in TruncateColors,
        gf \in {None, Some(HexRed)},
        go \in {None, Some(Half)},
        tag \in {"path", "circle", "rect"},
        af \in {None} \cup {Some(h) : h \in {HexBlack, HexWhite, HexBlue, HexDark,
                                             HexHalfBlack, HexNone, HexShort,
                                             HexClearWhite}},
        ao \in {None, Some(Num(Half)), Some(Num(0)), Some(Bad)},
        sf \in {None, Some(HexWhite), Some(HexBlack)}}

\* nodes that differ in how the stroke is given
StrokeCalls ==
    {Call(ZeroPoint, tc,
          [NoGroup EXCEPT !.stroke_color = gs, !.stroke_width = gw],
          "RequireExact",
          Node(tag, [NoStyle EXCEPT !["stroke"] = as, !["stroke-width"] = aw,
                                    !["stroke-opacity"] = ao],
               [NoStyle EXCEPT !["stroke-width"] = sw], Plain.geom, Plain.points, Plain.d),
          "Normal") :
        tc \in TruncateColors,
        gs \in {None, Some(HexBlue)},
        gw \in {None, Some(3)},
        tag \in {"path", "circle"},
        as \in {None, Some(HexBlack), Some(HexWhite), Some(HexNone), Some(HexClearWhite)},
        aw \in {None, Some(Num(2 * Unit)), Some(Num(0)), Some(Num(Unit + Half)), Some(Bad)},
        ao \in {None, Some(Num(0))},
        sw \in {None, Some(Num(4 * Unit))}}

\* per key, a value for the attribute, one for the inline style and one for
\* the group style, all three with different results
AttributeValue ==
    [k \in StyleKeys |->
        CASE k \in {"fill", "stroke"} -> Some(HexWhite)
          [] k = "stroke-width" -> Some(Num(2 * Unit))
          [] OTHER -> Some(Num(Unit))]
StyleValue ==
    [k \in StyleKeys |->
        CASE k \in {"fill", "stroke"} -> Some(HexRed)
          [] k = "stroke-width" -> Some(Num(3 * Unit))
          [] OTHER -> Some(Num(Half))]
GroupField ==
    [k \in StyleKeys |->
        CASE k = "fill" -> "fill_color" [] k = "stroke" -> "stroke_color"
          [] k = "stroke-width" -> "stroke_width" [] k = "opacity" -> "opacity"
          [] k = "fill-opacity" -> "fill_opacity" [] OTHER -> "stroke_opacity"]
GroupValue ==
    [k \in StyleKeys |->
        CASE k \in {"fill", "stroke"} -> Some(HexBlue)
          [] k = "stroke-width" -> Some(4)
          [] OTHER -> Some(4)]

\* white fill and stroke, as attributes, for the keys that are not colours
Visible(k) ==
    IF k \in {"fill", "stroke"} THEN NoStyle
    ELSE [NoStyle EXCEPT !["fill"] = Some(HexWhite), !["stroke"] = Some(HexWhite)]

\* nodes that give one key in any of the three places
LayerCalls ==
    {Call(ZeroPoint, tc,
          [NoGroup EXCEPT ![GroupField[k]] = IF in[3] THEN GroupValue[k] ELSE None],
          "RequireExact",
          Node(tag, [Visible(k) EXCEPT ![k] = IF in[1] THEN AttributeValue[k] ELSE None],
               [NoStyle EXCEPT ![k] = IF in[2] THEN StyleValue[k] ELSE None],
               Plain.geom, Plain.points, Plain.d),
          "Normal") :
        tc \in TruncateColors, k \in StyleKeys, in \in BOOLEAN \X BOOLEAN \X BOOLEAN,
        tag \in {"rect", "circle"}}

Calls == GeometryCalls \cup FillCalls \cup StrokeCalls \cup LayerCalls

InitShape ==
    /\ shape \in Calls
    /\ created = NotRun
    /\ IdlePoint /\ IdleColor /\ IdleCommand /\ IdleImage /\ IdleDocument /\ IdlePath

CreateCommand ==
    /\ ~Ran(created)
    /\ created' = create_command(shape.translation, shape.truncate_color,
                                 shape.group_options, shape.conversion, shape.node,
                                 shape.precision)
    /\ UNCHANGED <<shape, pointVars, colorVars, commandVars, imageVars, docVars, pathVars>>

NextShape == CreateCommand
SpecShape == InitShape /\ [][NextShape]_vars

(***************************************************************************)
(* SpecDocument: one document converted by parse_svg_image, and the image  *)
(* it returns serialized.                                                  *)
(***************************************************************************)
Box(x, y, w, h) == <<"box", x, y, w, h>>
List(tokens) == <<"list", tokens>>

ViewBoxes ==
    {Some(Box(0, 0, 10 * Unit, 10 * Unit)), Some(Box(2 * Unit, Unit, 10 * Unit, 10 * Unit)),
     Some(Box(-Half, 0, 10 * Unit, 10 * Unit))}

\* translate(5 6), translate(0.25 0), scale(2) translate(1 0),
\* translate(1 1) translate(2 2), rotate(90), and a text that is no list
Transforms ==
    {None,
     Some(List(<<Token("Translate", 5 * Unit, 6 * Unit)>>)),
     Some(List(<<Token("Translate", 4, 0)>>)),
     Some(List(<<Token("Scale", 2 * Unit, 2 * Unit), Token("Translate", Unit, 0)>>)),
     Some(List(<<Token("Translate", Unit, Unit), Token("Translate", 2 * Unit, 2 * Unit)>>)),
     Some(List(<<Token("Rotate", 90 * Unit, 0)>>)),
     Some(Bad)}
InnerTransforms ==
    {None, Some(List(<<Token("Translate", 5 * Unit, 6 * Unit)>>)),
     Some(List(<<Token("Translate", 4, 0)>>))}

\* a text node between the elements
Blank == Element(Node("", NoStyle, NoStyle, NoGeometry, None, None), None, None, << >>)

Shape(tag, attrs, style, transform) ==
    Element(Node(tag, attrs, style, Plain.geom, Plain.points, Plain.d), None, transform,
            << >>)
Group(attrs, transform, children) ==
    Element(Node("g", attrs, NoStyle, NoGeometry, None, None), None, transform, children)

Settings == {"Truncate"} \X Conversions \X Precisions

\* a shape inside two nested groups, each of the three with a transform
TransformDocuments ==
    {Conversion(Doc(TRUE, vb, None, None,
                    <<Blank, Group(NoStyle, t1, <<Group(NoStyle, t2,
                                                        <<Shape(tag, NoStyle, NoStyle, t3)>>)>>)>>),
                st[1], st[2], st[3]) :
        vb \in ViewBoxes, t1 \in Transforms, t2 \in InnerTransforms, t3 \in Transforms,
        tag \in {"rect", "circle"}, st \in Settings}

TenByTen == Some(Box(0, 0, 10 * Unit, 10 * Unit))
Strict(content, truncate) == Conversion(content, truncate, "RequireExact", "Normal")
OneShape(element) == Doc(TRUE, TenByTen, None, None, <<Blank, element, Blank>>)

\* a stroke or fill that is no #RRGGBB / #RRGGBBAA text, on a shape (as
\* attribute or in the style) or on the g around it
BadColorDocuments ==
    {Strict(OneShape(Shape(tag, [NoStyle EXCEPT ![k] = Some(h)], NoStyle, None)), tc) :
        tag \in {"rect", "circle"}, k \in {"stroke", "fill"},
        h \in {HexInvalid, HexNone}, tc \in TruncateColors}
    \cup {Strict(OneShape(Shape("rect", NoStyle, [NoStyle EXCEPT ![k] = Some(HexInvalid)],
                                None)), tc) :
        k \in {"stroke", "fill"}, tc \in TruncateColors}
    \cup {Strict(OneShape(Group([NoStyle EXCEPT ![k] = Some(HexInvalid)], None,
                                <<Shape("rect", NoStyle, NoStyle, None)>>)), tc) :
        k \in {"stroke", "fill"}, tc \in TruncateColors}

\* an opacity, fill-opacity or stroke-opacity that is no number, on a shape
\* or on a g; a width or height of the root that is no number
BadNumberDocuments ==
    {Strict(OneShape(Shape("rect", [NoStyle EXCEPT ![k] = Some(Bad)], NoStyle, None)), tc) :
        k \in {"opacity", "fill-opacity", "stroke-opacity"}, tc \in TruncateColors}
    \cup {Strict(OneShape(Group([NoStyle EXCEPT ![k] = Some(Bad)], None,
                                <<Shape("rect", NoStyle, NoStyle, None)>>)), tc) :
        k \in {"opacity", "fill-opacity", "stroke-opacity"}, tc \in TruncateColors}
    \cup {Strict(Doc(TRUE, None, wh[1], wh[2], <<Shape("rect", NoStyle, NoStyle, None)>>),
                 tc) :
        wh \in {<<Some(Bad), Some(Num(10 * Unit))>>, <<Some(Num(10 * Unit)), Some(Bad)>>,
                <<Some(Bad), None>>},
        tc \in TruncateColors}

\* the other entries of the taxonomy: XML, viewBox, transform, path data,
\* circle, polyline, points, and a point off the grid
Broken == [geom |-> WithKeys(GeometryAt(Half), {"cy", "y1", "y", "height"}, Some(Bad)),
           points |-> Some(<<<<Num(Half), Bad>>>>), d |-> Some(Bad)]
OffGrid == [geom |-> GeometryAt(Unit + 5), points |-> PointsAt(Unit + 5),
            d |-> Some(<<"segs", ClosedTriangle>>)]
GeometryOf(g, tag) ==
    Element(Node(tag, NoStyle, NoStyle, g.geom, g.points, g.d), None, None, << >>)

BadStructureDocuments ==
    {Strict(Doc(FALSE, TenByTen, None, None, << >>), tc) : tc \in TruncateColors}
    \cup {Strict(Doc(TRUE, Some(Bad), None, None, <<Shape("rect", NoStyle, NoStyle, None)>>),
                 tc) : tc \in TruncateColors}
    \cup {Strict(OneShape(Shape("rect", NoStyle, NoStyle, Some(Bad))), tc) :
            tc \in TruncateColors}
    \cup {Strict(OneShape(GeometryOf(Broken, tag)), tc) :
            tag \in {"path", "circle", "polyline", "polygon", "line", "rect"},
            tc \in TruncateColors}
    \cup {Strict(OneShape(GeometryOf([geom |-> NoGeometry, points |-> None, d |-> Some(Bad)],
                                     tag)), tc) :
            tag \in {"path", "circle", "polyline", "polygon", "line", "rect"},
            tc \in TruncateColors}
    \cup {Strict(OneShape(GeometryOf(OffGrid, tag)), tc) :
            tag \in {"circle", "polyline", "polygon", "line", "rect"},
            tc \in TruncateColors}

\* the six presentation attributes, each with a value that shows in the
\* command of a shape
Shown ==
    [k \in StyleKeys |->
        CASE k = "fill" -> Some(HexRed)
          [] k = "stroke" -> Some(HexBlue)
          [] k = "stroke-width" -> Some(Num(3 * Unit))
          [] OTHER -> Some(Num(Half))]
Only(keys) == [k \in StyleKeys |-> IF k \in keys THEN Shown[k] ELSE None]

OuterAttributes == {Only({k}) : k \in StyleKeys} \cup {Shown}
InnerAttributes ==
    {NoStyle, [NoStyle EXCEPT !["fill"] = Some(HexWhite)],
     [NoStyle EXCEPT !["stroke"] = Some(HexWhite), !["stroke-width"] = Some(Num(2 * Unit))],
     [NoStyle EXCEPT !["opacity"] = Some(Num(Unit))]}

\* a shape without attributes inside a g inside a g
NestedStyleDocuments ==
    {Strict(OneShape(Group(a, None, <<Group(b, None,
                                            <<Shape(tag, NoStyle, NoStyle, None)>>)>>)), tc) :
        a \in OuterAttributes, b \in InnerAttributes, tag \in {"rect", "circle"},
        tc \in TruncateColors}

MalformedDocuments == BadColorDocuments \cup BadNumberDocuments \cup BadStructureDocuments

\* a shape told from the others by its stroke width
Marked(tag, width, display) ==
    Element(Node(tag, [NoStyle EXCEPT !["stroke"] = Some(HexWhite),
                                      !["stroke-width"] = Some(Num(width * Unit))],
                 NoStyle, Plain.geom, Plain.points, Plain.d),
            display, None, << >>)
Container(tag, display, children) ==
    Element(Node(tag, NoStyle, NoStyle, NoGeometry, None, None), display, None, children)

\* shapes shown and hidden, a text node, an element of an unknown tag, and g
\* containers, shown and hidden, around them
Children ==
    {Marked("rect", 1, Some("inline")), Marked("circle", 2, None),
     Marked("rect", 3, Some("none")), Blank, Marked("text", 4, None),
     Container("g", None, <<Marked("line", 5, None), Marked("path", 6, None)>>),
     Container("g", Some("none"), <<Marked("rect", 7, None)>>),
     Container("g", None, <<Marked("defs", 8, None),
                            Container("g", None, <<Marked("polygon", 9, None)>>),
                            Marked("rect", 10, Some("none")),
                            Marked("polyline", 11, None)>>)}

OrderDocuments ==
    {Strict(Doc(TRUE, TenByTen, None, None, children), "Truncate") :
        children \in SeqsUpTo(Children, MaxChildren)}

\* shapes inside a layer, at the root and inside a g
LayerChildren ==
    {Container("layer", None, <<Marked("rect", 1, None), Marked("circle", 2, None)>>),
     Container("g", None, <<Container("layer", None, <<Marked("line", 3, None)>>)>>),
     Marked("polygon", 4, None)}

LayerDocuments ==
    {Strict(Doc(TRUE, TenByTen, None, None, children), "Truncate") :
        children \in SeqsUpTo(LayerChildren, 2)}

Documents ==
    TransformDocuments \cup MalformedDocuments \cup NestedStyleDocuments \cup OrderDocuments
        \cup LayerDocuments

Cx(conv) ==
    [truncate_color |-> conv.truncate_color, conversion |-> conv.conversion,
     precision |-> conv.precision]

InitDocument ==
    /\ document \in Documents
    /\ converted = NotRun
    /\ output = NotRun
    /\ IdlePoint /\ IdleColor /\ IdleCommand /\ IdleImage /\ IdleShape /\ IdlePath

ParseSvgImage ==
    /\ ~Ran(converted)
    /\ converted' = parse_svg_image(document.content, Cx(document))
    /\ UNCHANGED <<document, output, pointVars, colorVars, commandVars, imageVars,
                   shapeVars, pathVars>>

\* image.serialize(&mut file) on the image of a successful conversion
SerializeImage ==
    /\ Ran(converted) /\ converted.ok
    /\ ~Ran(output)
    /\ output' = serialize(converted.image)
    /\ UNCHANGED <<document, converted, pointVars, colorVars, commandVars, imageVars,
                   shapeVars, pathVars>>

NextDocument == ParseSvgImage \/ SerializeImage
SpecDocument == InitDocument /\ [][NextDocument]_vars

(***************************************************************************)
(* SpecPath: parse_path, one segment of the path at a time, then the       *)
(* points made into a command.                                             *)
(***************************************************************************)
\* M/L 1 1, 1.5 1.25 and 3 2, l 2 0.5, H 3, h 2, V 3, v 2, Z
Segments ==
    {Seg("To", TRUE, Unit, Unit), Seg("To", TRUE, Unit + Half, Unit + 4),
     Seg("To", TRUE, 3 * Unit, 2 * Unit), Seg("To", FALSE, 2 * Unit, Half),
     Seg("H", TRUE, 3 * Unit, 0), Seg("H", FALSE, 2 * Unit, 0),
     Seg("V", TRUE, 0, 3 * Unit), Seg("V", FALSE, 0, 2 * Unit),
     Seg("Z", TRUE, 0, 0)}

Paths ==
    {Trace(segs, DrawOptions(ZeroPoint, 1, 255, 0, pr, "RequireExact")) :
        segs \in SeqsUpTo(Segments, MaxSegments), pr \in Precisions}

InitPath ==
    /\ path \in Paths
    /\ walk = Start(path.segments)
    /\ traced = NotRun
    /\ IdlePoint /\ IdleColor /\ IdleCommand /\ IdleImage /\ IdleShape /\ IdleDocument

\* one turn of the loop, on a segment of the given kind
Turn(kind) ==
    /\ walk.rest # << >>
    /\ Head(walk.rest).kind = kind
    /\ walk' = [rest |-> Tail(walk.rest),
                points |-> SegmentStep(walk, Head(walk.rest)).points,
                current |-> SegmentStep(walk, Head(walk.rest)).current]
    /\ UNCHANGED <<path, traced, pointVars, colorVars, commandVars, imageVars, shapeVars,
                   docVars>>

EndpointTo == Turn("To")
HorizontalLineTo == Turn("H")
VerticalLineTo == Turn("V")
ClosePath == Turn("Z")

\* after the loop: floor, open, pop, quantize
EmitPath ==
    /\ walk.rest = << >>
    /\ ~Ran(traced)
    /\ traced' = PathFromFloored(FloorAll(walk.points), path.options)
    /\ UNCHANGED <<path, walk, pointVars, colorVars, commandVars, imageVars, shapeVars,
                   docVars>>

NextPath == EndpointTo \/ HorizontalLineTo \/ VerticalLineTo \/ ClosePath \/ EmitPath
SpecPath == InitPath /\ [][NextPath]_vars

(***************************************************************************)
(* Reading a byte stream back, for the statements about the layout.        *)
(***************************************************************************)
LE16(b, i) == b[i] + 256 * b[i + 1]
LE32(b, i) == b[i] + 256 * b[i + 1] + 65536 * b[i + 2] + 16777216 * b[i + 3]

\* the length of the record that starts at pos, read from its own bytes
RecordLength(b, pos) == IF b[pos] = 2 THEN 11 ELSE 9 + 4 * LE16(b, pos + 7)

TagOf(c) ==
    IF c.kind = "Circle" THEN 2 ELSE IF c.options.precision = "Normal" THEN 1 ELSE 3

\* the records from pos on are those of the commands, in order, and end the stream
RECURSIVE RecordsMatch(_, _, _)
RecordsMatch(b, pos, commands) ==
    IF commands = << >> THEN pos = Len(b) + 1
    ELSE /\ pos + 8 <= Len(b)
         /\ b[pos] = TagOf(Head(commands))
         /\ b[pos + 1] = 0
         /\ b[pos + 2] = Head(commands).options.stroke_color
         /\ b[pos + 3] = Head(commands).options.stroke_width
         /\ b[pos + 4] = Head(commands).options.fill_color
         /\ Head(commands).kind = "Path" => LE16(b, pos + 7) = Len(Head(commands).points)
         /\ Head(commands).kind = "Circle" => LE16(b, pos + 5) = Head(commands).radius
         /\ RecordsMatch(b, pos + RecordLength(b, pos), Tail(commands))

(***************************************************************************)
(* C1: whenever PebbleImage::serialize succeeds, the sink holds "PDCI", a  *)
(* little-endian u32 equal to the number of bytes after it, then version   *)
(* 1, reserved 0, size.x, size.y and the command count as u16 LE, then one *)
(* record per command in the stored order and nothing else; the empty      *)
(* image of size (100,200) gives 01 00 64 00 C8 00 00 00 with length 8.    *)
(***************************************************************************)
C1_ImageLayout ==
    sink.ok =>
        /\ Len(sink.bytes) >= 16
        /\ SubSeq(sink.bytes, 1, 4) = <<80, 68, 67, 73>>
        /\ LE32(sink.bytes, 5) = Len(sink.bytes) - 8
        /\ sink.bytes[9] = 1
        /\ sink.bytes[10] = 0
        /\ LE16(sink.bytes, 11) = image.size.x
        /\ LE16(sink.bytes, 13) = image.size.y
        /\ LE16(sink.bytes, 15) = Len(image.commands)
        /\ RecordsMatch(sink.bytes, 17, image.commands)
        /\ (image.commands = << >> /\ image.size = PebblePoint(100, 200)) =>
              sink.bytes = <<80, 68, 67, 73, 8, 0, 0, 0, 1, 0, 100, 0, 200, 0, 0, 0>>

C1_Witness ==
    /\ sink.ok
    /\ Len(image.commands) = 2
    /\ image.commands[1].kind = "Circle"
    /\ image.commands[2].kind = "Path"
    /\ Len(image.commands[2].points) = 2
    /\ image.commands[1].options.stroke_color # image.commands[2].options.stroke_color

(***************************************************************************)
(* C2: a Path that serializes is written as its tag (1 Normal, 3 Precise), *)
(* 0, stroke colour, stroke width, fill colour, the open flag, 0, the      *)
(* number of stored points as u16 LE and then 4 bytes per point: 9 + 4 *   *)
(* point_count bytes in all.                                               *)
(***************************************************************************)
C2_PathLayout ==
    (written.ok /\ command.kind = "Path") =>
        /\ Len(written.bytes) = 9 + 4 * Len(command.points)
        /\ written.bytes[1] = (IF command.options.precision = "Normal" THEN 1 ELSE 3)
        /\ written.bytes[2] = 0
        /\ written.bytes[3] = command.options.stroke_color
        /\ written.bytes[4] = command.options.stroke_width
        /\ written.bytes[5] = command.options.fill_color
        /\ written.bytes[6] = (IF command.open THEN 1 ELSE 0)
        /\ written.bytes[7] = 0
        /\ LE16(written.bytes, 8) = Len(command.points)
        /\ \A i \in 10..Len(written.bytes) : written.bytes[i] \in 0..255

C2_Witness ==
    /\ written.ok
    /\ command.kind = "Path"
    /\ command.options.precision = "Precise"
    /\ Len(command.points) = 2
    /\ command.open
    /\ command.options.stroke_color # command.options.stroke_width

(***************************************************************************)
(* C3: a Circle that serializes is written as exactly 11 bytes: tag 2, 0,  *)
(* stroke colour, stroke width, fill colour, the radius and the two center *)
(* coordinates as u16 LE, in Normal and in Precise mode alike; with Normal *)
(* precision and a whole non-negative translate offset the center fields   *)
(* hold the stored center moved by the offset.                             *)
(***************************************************************************)
C3_CircleLayout ==
    (written.ok /\ command.kind = "Circle") =>
        /\ Len(written.bytes) = 11
        /\ written.bytes[1] = 2
        /\ written.bytes[2] = 0
        /\ written.bytes[3] = command.options.stroke_color
        /\ written.bytes[4] = command.options.stroke_width
        /\ written.bytes[5] = command.options.fill_color
        /\ LE16(written.bytes, 6) = command.radius
        /\ \A i \in 8..11 : written.bytes[i] \in 0..255
        /\ (/\ command.options.precision = "Normal"
            /\ command.options.translate \in {FPoint(0, 0), FPoint(5 * Unit, 6 * Unit)}) =>
              /\ LE16(written.bytes, 8) * Unit = command.center.x * Unit + command.options.translate.x
              /\ LE16(written.bytes, 10) * Unit = command.center.y * Unit + command.options.translate.y

C3_Witness ==
    /\ written.ok
    /\ command.kind = "Circle"
    /\ command.options.precision = "Precise"
    /\ command.radius = 300
    /\ command.center = PebblePoint(300, 20)

(***************************************************************************)
(* C4: a point whose coordinates are multiples of the snapping step of the *)
(* precision (0.5 Normal, 0.125 Precise) is never treated as off the grid: *)
(* pebble_coordinates returns Ok under RequireExact and warns under no     *)
(* policy.                                                                 *)
(***************************************************************************)
OnGrid(p, prec) ==
    /\ p.x % (IF prec = "Normal" THEN 8 ELSE 2) = 0
    /\ p.y % (IF prec = "Normal" THEN 8 ELSE 2) = 0

C4_OnGridAccepted ==
    (Ran(device) /\ OnGrid(point, precision)) => (device.ok /\ ~device.warned)

C4_Witness ==
    /\ Ran(device)
    /\ precision = "Precise"
    /\ conversion = "RequireExact"
    /\ OnGrid(point, precision)
    /\ ~OnGrid(point, "Normal")
    /\ point.x < 0
    /\ device.ok

(***************************************************************************)
(* C5: pebble_coordinates is the reference algorithm.  nearest is          *)
(* round(p*k)/k with k = 2 or 8; a point other than nearest fails with     *)
(* InvalidPoint{p, nearest} under RequireExact and continues with nearest  *)
(* under both Convert policies, which give the same device point; the      *)
(* device point is round(q - 0.5) per coordinate, times 8 in Precise mode, *)
(* converted to u16 (a value in 0..65535 is kept).  round is half away     *)
(* from zero after the f32 addition of the epsilon: the addition changes   *)
(* the operand only for -2 <= v < 2, where a negative half then rounds     *)
(* towards zero (-0.5 to 0, -1.5 to -1).                                   *)
(***************************************************************************)
RefRound(v) ==
    LET lo == v \div Unit
        fr == v - lo * Unit
    IN  CASE 2 * fr < Unit -> lo
          [] 2 * fr > Unit -> lo + 1
          [] OTHER -> IF v >= 0 \/ v >= -2 * Unit THEN lo + 1 ELSE lo

RefNearest(p, k) ==
    [x |-> (RefRound(p.x * k) * Unit) \div k, y |-> (RefRound(p.y * k) * Unit) \div k]

RefClamp(n) == IF n < 0 THEN 0 ELSE IF n > 65535 THEN 65535 ELSE n

RefDevice(q, prec) ==
    [x |-> RefClamp(RefRound(q.x - 8) * (IF prec = "Precise" THEN 8 ELSE 1)),
     y |-> RefClamp(RefRound(q.y - 8) * (IF prec = "Precise" THEN 8 ELSE 1))]

RefResult(p, nearest, prec, conv) ==
    IF p = nearest THEN [ok |-> TRUE, warned |-> FALSE, point |-> RefDevice(p, prec)]
    ELSE IF conv = "RequireExact"
         THEN [ok |-> FALSE, err |-> "InvalidPoint", point |-> p, nearest_valid |-> nearest]
         ELSE [ok |-> TRUE, warned |-> conv = "ConvertWarn", point |-> RefDevice(nearest, prec)]

C5_ReferenceAlgorithm ==
    Ran(device) =>
        /\ device = RefResult(point, RefNearest(point, IF precision = "Normal" THEN 2 ELSE 8),
                              precision, conversion)
        /\ conversion = "ConvertWarn" =>
              device.point = pebble_coordinates(point, precision, "ConvertNoWarn").point

C5_Witness ==
    /\ Ran(device)
    /\ ~device.ok
    /\ precision = "Normal"
    /\ point.x = -4
    /\ device.nearest_valid.x = 0

(***************************************************************************)
(* C6 (as claimed): in Precise mode two non-negative points on the 0.125   *)
(* grid whose x differs by 0.125 get device x coordinates that differ by 1.*)
(***************************************************************************)
EighthFurther(p) == FPoint(p.x + 2, p.y)

C6_PreciseGridIsFiner ==
    (/\ Ran(device)
     /\ precision = "Precise"
     /\ OnGrid(point, "Precise")
     /\ point.x >= 0 /\ point.y >= 0) =>
        pebble_coordinates(EighthFurther(point), precision, conversion).point.x
            = device.point.x + 1

(***************************************************************************)
(* C7 (as claimed): from_color_with_truncate gives byte 0 when a/85 = 0,   *)
(* and otherwise a byte whose 2-bit fields read back with get_a, get_r,    *)
(* get_g, get_b are a/85, r/85, g/85, b/85.                                *)
(***************************************************************************)
C7_TruncatePacksIndices ==
    (Ran(quantized) /\ truncate_color = "Truncate") =>
        IF color.a \div 85 = 0 THEN pebble_color = 0
        ELSE /\ get_a(pebble_color) = color.a \div 85
             /\ get_r(pebble_color) = color.r \div 85
             /\ get_g(pebble_color) = color.g \div 85
             /\ get_b(pebble_color) = color.b \div 85

(***************************************************************************)
(* C8 (as claimed): under ConvertNearest every channel c becomes           *)
(* round((c + 42) / 85) * 85, one of 0, 85, 170, 255, and a colour whose   *)
(* alpha maps to 0 gives the byte 0 whatever its RGB channels.             *)
(***************************************************************************)
NearestLevel(c) == ((2 * (c + 42) + 85) \div 170) * 85

C8_ConvertNearestLevels ==
    (Ran(quantized) /\ truncate_color = "Keep") =>
        /\ quantized.color = Color(NearestLevel(color.r), NearestLevel(color.g),
                                   NearestLevel(color.b), NearestLevel(color.a))
        /\ \A ch \in {quantized.color.r, quantized.color.g, quantized.color.b,
                      quantized.color.a} : ch \in {0, 85, 170, 255}
        /\ color.a = 0 => pebble_color = 0

(***************************************************************************)
(* C9 (as claimed): under both colour policies, applying the per-channel   *)
(* mapping to channels that were already mapped returns them unchanged.    *)
(***************************************************************************)
C9_QuantizeIdempotent ==
    Ran(requantized) => requantized.color = quantized.color

(***************************************************************************)
(* C10 (as claimed): for every shape and both colour policies, when the    *)
(* resolved fill colour quantizes to palette black (the indices of r, g    *)
(* and b are all 0, whatever the alpha), the fill byte of the command that *)
(* create_command returns is 0; a fill of #000000 at full opacity gives    *)
(* fill byte 0 under Truncate and under ConvertNearest.                    *)
(***************************************************************************)
\* the palette index of a channel: c / 85 under Truncate, the index of the
\* nearest level under ConvertNearest
PaletteIndex(c, policy) ==
    IF policy = "Truncate" THEN c \div Level ELSE NearestLevel(c) \div Level

\* the fill colour of the call, layered attribute over style over group
ResolvedFill ==
    ColorOrDefault(OrElse(Merged(shape.node, "fill"), shape.group_options.fill_color))

Emitted == Ran(created) /\ created.ok /\ IsSome(created.command)

C10_BlackFillIsNothing ==
    (Emitted /\ ResolvedFill.ok) =>
        ((\A ch \in {ResolvedFill.color.r, ResolvedFill.color.g, ResolvedFill.color.b} :
              PaletteIndex(ch, shape.truncate_color) = 0)
            => created.command[1].options.fill_color = 0)

(***************************************************************************)
(* C11: in every command that create_command returns, stroke_width is 0    *)
(* exactly when the stroke colour byte is 0, whatever the resolved stroke  *)
(* colour, stroke width and colour policy.                                 *)
(***************************************************************************)
C11_WidthZeroIffStrokeNothing ==
    Emitted =>
        (created.command[1].options.stroke_width = 0
            <=> created.command[1].options.stroke_color = 0)

\* a white stroke of width 0: the width forces the colour to "nothing"
C11_Witness ==
    /\ Emitted
    /\ Merged(shape.node, "stroke") = Some(HexWhite)
    /\ Merged(shape.node, "stroke-width") = Some(Num(0))
    /\ Merged(shape.node, "stroke-opacity") = None
    /\ created.command[1].options.stroke_width = 0
    /\ created.command[1].options.stroke_color = 0

(***************************************************************************)
(* C12 (as claimed): every failure of the coordinate quantization is       *)
(* raised by parse_svg_image: serializing an image that parse_svg_image    *)
(* returned never fails with InvalidPoint, whatever translate offsets the  *)
(* shapes and groups carry.                                                *)
(***************************************************************************)
C12_SerializeNeverInvalidPoint ==
    Ran(output) => output.ok

(***************************************************************************)
(* C13 (as claimed): every kind of malformed input makes parse_svg_image   *)
(* return a typed Err, never an image and never a crash; a stroke or fill  *)
(* that is no valid #RRGGBB / #RRGGBBAA text gives InvalidColor, and an    *)
(* opacity, fill-opacity, stroke-opacity, width or height that is no       *)
(* number gives an error value.                                            *)
(***************************************************************************)
C13_MalformedInputIsTypedError ==
    (Ran(converted) /\ document \in MalformedDocuments) =>
        /\ ~converted.ok
        /\ converted.err # "panic"
        /\ document \in BadColorDocuments => converted.err = "InvalidColor"

(***************************************************************************)
(* C14 (as claimed): with nested g containers the style that reaches the   *)
(* shapes of the inner g is the inherited style with the attributes of the *)
(* inner g over it: what an outer g sets and the inner g does not set      *)
(* still applies to the shapes inside the inner g.                         *)
(***************************************************************************)
\* own values override, values not overridden pass through
MergedGroup(inherited, own) ==
    [k \in DOMAIN own |-> OrElse(own[k], inherited[k])]

OuterGroup == document.content.root.children[2]
InnerGroup == OuterGroup.children[1]
InnerShape == InnerGroup.children[1]

C14_NestedGroupsInherit ==
    (Ran(converted) /\ document \in NestedStyleDocuments) =>
        /\ converted.ok
        /\ converted.image.commands =
              <<create_command(ZeroPoint, document.truncate_color,
                               MergedGroup(subgroup_options(OuterGroup).options,
                                           subgroup_options(InnerGroup).options),
                               document.conversion, InnerShape,
                               document.precision).command[1]>>

(***************************************************************************)
(* C15: a shape takes each of stroke, fill, stroke-width, opacity,         *)
(* stroke-opacity and fill-opacity from its attribute if it has one, else  *)
(* from its inline style if that has the key, else from the group style:   *)
(* the command is the one of a node that carries the values so chosen as   *)
(* attributes, without inline style and without group style.               *)
(***************************************************************************)
\* the text of a value of the group style
GroupText(k, v) ==
    IF ~IsSome(v) THEN None
    ELSE IF k \in {"fill", "stroke"} THEN v
    ELSE IF k = "stroke-width" THEN Some(Num(v[1] * Unit))
    ELSE Some(Num(v[1]))

Layered(node, group, k) ==
    IF IsSome(node.attrs[k]) THEN node.attrs[k]
    ELSE IF IsSome(node.style[k]) THEN node.style[k]
    ELSE GroupText(k, group[GroupField[k]])

Flattened(node, group) ==
    [node EXCEPT !.attrs = [k \in StyleKeys |-> Layered(node, group, k)],
                 !.style = NoStyle]

C15_AttributeOverStyleOverGroup ==
    Ran(created) =>
        created = create_command(shape.translation, shape.truncate_color, NoGroup,
                                 shape.conversion,
                                 Flattened(shape.node, shape.group_options),
                                 shape.precision)

\* fill given in all three places: the white of the attribute is emitted
C15_Witness ==
    /\ Emitted
    /\ shape.node.attrs["fill"] = Some(HexWhite)
    /\ shape.node.style["fill"] = Some(HexRed)
    /\ shape.group_options.fill_color = Some(HexBlue)
    /\ created.command[1].options.fill_color = Quantize(Color(255, 255, 255, 255),
                                                        shape.truncate_color)

(***************************************************************************)
(* C16 (as claimed): the alpha with which the stroke of a shape is         *)
(* quantized is base alpha x element opacity x stroke-opacity, and the     *)
(* alpha of the fill is base alpha x element opacity x fill-opacity, the   *)
(* base alpha being the AA digits of the colour (255 without them); a      *)
(* colour with the alpha digits 00 resolves to alpha 0.                    *)
(***************************************************************************)
ComposedAlpha(base, opacity, x_opacity) ==
    CastU8((base * opacity * x_opacity) \div (Unit * Unit))

ComposedOptions(st) ==
    MakeOptions(shape.translation, st.width,
                Quantize(with_opacity(st.stroke.color,
                                      ComposedAlpha(st.stroke.color.a, st.opacity[2],
                                                    st.stroke_opacity[2])),
                         shape.truncate_color),
                Quantize(with_opacity(st.fill.color,
                                      ComposedAlpha(st.fill.color.a, st.opacity[2],
                                                    st.fill_opacity[2])),
                         shape.truncate_color),
                shape.precision, shape.conversion)

\* the colour is given somewhere and is a valid colour text
Parsed(c) == IF IsSome(c) THEN try_from_hex(c[1]).ok ELSE FALSE
GivenStroke == OrElse(Merged(shape.node, "stroke"), shape.group_options.stroke_color)
GivenFill == OrElse(Merged(shape.node, "fill"), shape.group_options.fill_color)

AlphaComposed(options, composed) ==
    /\ Parsed(GivenFill) => options.fill_color = composed.fill_color
    /\ Parsed(GivenStroke) =>
          /\ options.stroke_color = composed.stroke_color
          /\ options.stroke_width = composed.stroke_width

C16_AlphaComposesWithBase ==
    Emitted =>
        AlphaComposed(created.command[1].options,
                      ComposedOptions(Resolved(shape.node, shape.group_options)))

(***************************************************************************)
(* C17 (as claimed): a shape for which no stroke colour is given in the    *)
(* group style, the inline style or the attributes has stroke colour byte  *)
(* 0 and stroke width 0, and a shape for which no fill is given has fill   *)
(* byte 0, under both colour policies.                                     *)
(***************************************************************************)
C17_MissingColorsAreNothing ==
    Emitted =>
        /\ GivenStroke = None =>
              /\ created.command[1].options.stroke_color = 0
              /\ created.command[1].options.stroke_width = 0
        /\ GivenFill = None => created.command[1].options.fill_color = 0

(***************************************************************************)
(* C18 (as claimed): the translate offset stored in the command of a shape *)
(* is (-viewBox.x, -viewBox.y) plus the translate component of the         *)
(* transform of every enclosing g plus the translate component of the      *)
(* transform of the shape; scale, rotate and skew entries never change it. *)
(* The translate component of a transform is read as all its translate     *)
(* entries together.                                                       *)
(***************************************************************************)
RECURSIVE EveryTranslate(_)
EveryTranslate(tokens) ==
    IF tokens = << >> THEN FPoint(0, 0)
    ELSE IF Head(tokens).kind = "Translate"
    THEN FPoint(Head(tokens).tx + EveryTranslate(Tail(tokens)).x,
                Head(tokens).ty + EveryTranslate(Tail(tokens)).y)
    ELSE EveryTranslate(Tail(tokens))

\* the first translate entry alone
RECURSIVE LeadingTranslate(_)
LeadingTranslate(tokens) ==
    IF tokens = << >> THEN FPoint(0, 0)
    ELSE IF Head(tokens).kind = "Translate" THEN FPoint(Head(tokens).tx, Head(tokens).ty)
    ELSE LeadingTranslate(Tail(tokens))

Tokens(element) == IF IsSome(element.transform) THEN element.transform[1][2] ELSE << >>

OffsetAll ==
    LET a == EveryTranslate(Tokens(OuterGroup))
        b == EveryTranslate(Tokens(InnerGroup))
        c == EveryTranslate(Tokens(InnerShape))
        vb == document.content.viewBox[1]
    IN  FPoint(a.x + b.x + c.x - vb[2], a.y + b.y + c.y - vb[3])

OffsetLeading ==
    LET a == LeadingTranslate(Tokens(OuterGroup))
        b == LeadingTranslate(Tokens(InnerGroup))
        c == LeadingTranslate(Tokens(InnerShape))
        vb == document.content.viewBox[1]
    IN  FPoint(a.x + b.x + c.x - vb[2], a.y + b.y + c.y - vb[3])

Translated == Ran(converted) /\ document \in TransformDocuments /\ converted.ok

C18_TranslateAccumulates ==
    Translated => converted.image.commands[1].options.translate = OffsetAll

(***************************************************************************)
(* C18 (amended): the stored offset is (-viewBox.x, -viewBox.y) plus the   *)
(* first translate entry of the transform of every enclosing g plus the    *)
(* first translate entry of the transform of the shape; further translate  *)
(* entries and scale, rotate and skew entries never change it.             *)
(***************************************************************************)
C18_FirstTranslateAccumulates ==
    Translated =>
        /\ Len(converted.image.commands) = 1
        /\ converted.image.commands[1].options.translate = OffsetLeading

\* a viewBox away from the origin, a scale before the translate of the outer
\* g, and a translate on the inner g and on the shape
C18_Witness ==
    /\ Translated
    /\ document.content.viewBox[1][2] = 2 * Unit
    /\ Tokens(OuterGroup) = <<Token("Scale", 2 * Unit, 2 * Unit), Token("Translate", Unit, 0)>>
    /\ Tokens(InnerGroup) = <<Token("Translate", 5 * Unit, 6 * Unit)>>
    /\ Tokens(InnerShape) = <<Token("Translate", 4, 0)>>
    /\ converted.image.commands[1].options.translate = FPoint(4 * Unit + 4, 5 * Unit)

(***************************************************************************)
(* C19 (as claimed): in parse_path every segment other than close-path     *)
(* adds exactly one point, its destination: the given coordinate for an    *)
(* absolute segment, the given offset added to the last resolved point for *)
(* a relative one; for a horizontal (vertical) line, absolute or relative, *)
(* the y (x) of the point is the y (x) of the last resolved point.         *)
(***************************************************************************)
DestinationOf(seg, last) ==
    CASE seg.kind = "To" ->
            IF seg.abs THEN FPoint(seg.x, seg.y) ELSE FPoint(last.x + seg.x, last.y + seg.y)
      [] seg.kind = "H" -> FPoint(IF seg.abs THEN seg.x ELSE last.x + seg.x, last.y)
      [] seg.kind = "V" -> FPoint(last.x, IF seg.abs THEN seg.y ELSE last.y + seg.y)

C19_OnePointPerSegment ==
    [][(walk' # walk /\ Head(walk.rest).kind # "Z") =>
          /\ walk'.points = Append(walk.points, DestinationOf(Head(walk.rest), walk.current))
          /\ walk'.current = DestinationOf(Head(walk.rest), walk.current)]_vars

(***************************************************************************)
(* C20: once every accumulated point of a path has both coordinates        *)
(* floored, the command is open exactly when the first and the last        *)
(* floored point differ; when they are equal the command is closed and     *)
(* only the final point is removed, every other point being emitted in     *)
(* order.                                                                  *)
(***************************************************************************)
Floored(v) == v - (v % Unit)
FlooredPoints ==
    [i \in 1..Len(walk.points) |-> FPoint(Floored(walk.points[i].x), Floored(walk.points[i].y))]

\* the device point of a floored point; a whole coordinate is on the grid
DeviceOf(pt) == pebble_coordinates(pt, path.options.precision, path.options.conversion).point

EmittedOf(points, open) ==
    [i \in 1..(IF open \/ points = << >> THEN Len(points) ELSE Len(points) - 1) |->
        DeviceOf(points[i])]

DiffersAtEnds(points) ==
    IF points = << >> THEN FALSE ELSE points[1] # points[Len(points)]

C20_OpenIffEndsDiffer ==
    Ran(traced) =>
        /\ traced.ok
        /\ traced.command[1].kind = "Path"
        /\ traced.command[1].open = DiffersAtEnds(FlooredPoints)
        /\ traced.command[1].points = EmittedOf(FlooredPoints, DiffersAtEnds(FlooredPoints))

\* M 1 1 L 3 2 L 1.5 1.25: the last point floors onto the first, the path is
\* closed and the two points before it are emitted
C20_Witness ==
    /\ Ran(traced)
    /\ path.segments = <<Seg("To", TRUE, Unit, Unit), Seg("To", TRUE, 3 * Unit, 2 * Unit),
                         Seg("To", TRUE, Unit + Half, Unit + 4)>>
    /\ ~traced.command[1].open
    /\ Len(traced.command[1].points) = 2

(***************************************************************************)
(* C21 (as claimed): the center of a circle is always encoded with Normal  *)
(* precision: for the same document and policies the bytes of center.x and *)
(* center.y written for a circle are the same whether the converter was    *)
(* created with Normal or with Precise precision.                          *)
(***************************************************************************)
\* the file a converter of the given precision writes for the document
\* (called only for a document that it converts)
FileUnder(prec) ==
    serialize(parse_svg_image(document.content,
                              [Cx(document) EXCEPT !.precision = prec]).image)

\* the command records start after magic, length, header and command count;
\* the center of a circle follows its five option bytes and its radius
FirstRecord == Len(Magic) + 4 + 6 + 2
CenterBytes(bytes) == SubSeq(bytes, FirstRecord + 8, FirstRecord + 11)

OneCircleWritten ==
    /\ Ran(output) /\ output.ok
    /\ document \in TransformDocuments
    /\ InnerShape.tag = "circle"

C21_CircleCenterIsNormal ==
    (OneCircleWritten /\ document.precision = "Precise") =>
        /\ FileUnder("Normal").ok
        /\ CenterBytes(output.bytes) = CenterBytes(FileUnder("Normal").bytes)

(***************************************************************************)
(* C22: a polyline and a line give an open Path, a polygon and a rect a    *)
(* closed Path; a rect with x, y, width, height gives exactly the 4 points *)
(* (x,y), (x+width,y), (x+width,y+height), (x,y+height) in that order; a   *)
(* polyline or polygon gives one point per coordinate pair of its points   *)
(* list, in list order.                                                    *)
(***************************************************************************)
\* the device point of a coordinate of the shape
ShapePoint(x, y) ==
    pebble_coordinates(FPoint(x, y), shape.precision, shape.conversion).point

Attr(k) == shape.node.geom[k][1][2]
Pairs == shape.node.points[1]

SupportedTags == {"path", "circle", "polyline", "polygon", "line", "rect"}

RECURSIVE ShapesOf(_)
ShapesOf(children) ==
    IF children = << >> THEN << >>
    ELSE LET c == Head(children)
         IN  (IF c.display = Some("none") THEN << >>
              ELSE IF c.tag = "g" THEN ShapesOf(c.children)
              ELSE IF c.tag \in SupportedTags THEN <<c>>
              ELSE << >>) \o ShapesOf(Tail(children))

\* the command of a shape outside every group, at the origin
CommandOf(element) ==
    create_command(ZeroPoint, document.truncate_color, NoGroup, document.conversion,
                   element, document.precision).command[1]

C23_CommandsInDocumentOrder ==
    (Ran(converted) /\ document \in OrderDocuments) =>
        /\ converted.ok
        /\ converted.image.commands =
              [i \in 1..Len(ShapesOf(document.content.root.children)) |->
                  CommandOf(ShapesOf(document.content.root.children)[i])]

\* the nested container, a hidden container, then a rect: the polygon of
\* the inner g, the polyline after the hidden rect, and the rect
C23_Witness ==
    /\ Ran(converted) /\ converted.ok
    /\ document \in OrderDocuments
    /\ Len(document.content.root.children) = 3
    /\ document.content.root.children[1].tag = "g"
    /\ Len(document.content.root.children[1].children) = 4
    /\ document.content.root.children[2].display = Some("none")
    /\ document.content.root.children[3] = Marked("rect", 1, Some("inline"))
    /\ [i \in 1..Len(converted.image.commands) |->
           converted.image.commands[i].options.stroke_width] = <<9, 11, 1>>

(***************************************************************************)
(* C24: a layer container is walked like a g container: the supported      *)
(* shapes nested inside a layer element appear in the command list of the  *)
(* converted image.                                                        *)
(***************************************************************************)
RECURSIVE LayerShapesOf(_)
LayerShapesOf(children) ==
    IF children = << >> THEN << >>
    ELSE LET c == Head(children)
         IN  (IF c.display = Some("none") THEN << >>
              ELSE IF c.tag \in {"g", "layer"} THEN LayerShapesOf(c.children)
              ELSE IF c.tag \in SupportedTags THEN <<c>>
              ELSE << >>) \o LayerShapesOf(Tail(children))

C24_LayerWalkedLikeGroup ==
    (Ran(converted) /\ document \in LayerDocuments) =>
        /\ converted.ok
        /\ converted.image.commands =
              [i \in 1..Len(LayerShapesOf(document.content.root.children)) |->
                  CommandOf(LayerShapesOf(document.content.root.children)[i])]

(***************************************************************************)
(* C25: for a Path command with Normal precision whose translate offset    *)
(* has integer components, every serialized coordinate pair is the stored  *)
(* device point plus the offset, componentwise, provided the sums are      *)
(* within 0..65535: stored (10,20) and (30,40) with translate (5,6) are    *)
(* written as (15,26) and (35,46).                                         *)
(***************************************************************************)
WholeOffset(c) ==
    /\ c.options.translate.x % Unit = 0
    /\ c.options.translate.y % Unit = 0

\* the stored point i moved by the whole offset
SumOf(c, i) ==
    PebblePoint(c.points[i].x + c.options.translate.x \div Unit,
                c.points[i].y + c.options.translate.y \div Unit)

SumsInRange(c) ==
    \A i \in 1..Len(c.points) :
        SumOf(c, i).x \in 0..65535 /\ SumOf(c, i).y \in 0..65535

\* the four bytes of coordinate pair i of a serialized Path
PairBytes(bytes, i) ==
    SubSeq(bytes, DRAW_COMMAND_HEADER_SIZE + 4 * (i - 1) + 1, DRAW_COMMAND_HEADER_SIZE + 4 * i)

C25_IntegerTranslateAdds ==
    (/\ Ran(written)
     /\ command.kind = "Path"
     /\ command.options.precision = "Normal"
     /\ WholeOffset(command)
     /\ SumsInRange(command)) =>
        /\ written.ok
        /\ Len(written.bytes) = DRAW_COMMAND_HEADER_SIZE + 4 * Len(command.points)
        /\ \A i \in 1..Len(command.points) :
              PairBytes(written.bytes, i) =
                  U16LE(SumOf(command, i).x) \o U16LE(SumOf(command, i).y)

\* the example of the serialization test
C25_Witness ==
    /\ Ran(written) /\ written.ok
    /\ command.kind = "Path"
    /\ command.options.precision = "Normal"
    /\ command.points = <<PebblePoint(10, 20), PebblePoint(30, 40)>>
    /\ command.options.translate = FPoint(5 * Unit, 6 * Unit)
    /\ SubSeq(written.bytes, DRAW_COMMAND_HEADER_SIZE + 1, Len(written.bytes)) =
          <<15, 0, 26, 0, 35, 0, 46, 0>>

(***************************************************************************)
(* C26: quantizing again at serialization time is the identity on points   *)
(* that are already quantized: in Precise mode a path whose translate      *)
(* offset is (0,0) is serialized with exactly the device points stored in  *)
(* the command; the stored points are not scaled by 8 a second time.       *)
(***************************************************************************)
C26_PreciseRequantizeIsIdentity ==
    (/\ Ran(written)
     /\ command.kind = "Path"
     /\ command.options.precision = "Precise"
     /\ command.options.translate = FPoint(0, 0)) =>
        /\ written.ok
        /\ Len(written.bytes) = DRAW_COMMAND_HEADER_SIZE + 4 * Len(command.points)
        /\ \A i \in 1..Len(command.points) :
              PairBytes(written.bytes, i) =
                  U16LE(command.points[i].x) \o U16LE(command.points[i].y)

(***************************************************************************)
(* C29: DrawCommand::serialize returns the number of bytes it wrote to the *)
(* writer, for both variants: 9 + 4 * point_count for a Path and the full  *)
(* record length for a Circle.                                             *)
(***************************************************************************)
C29_ReturnsBytesWritten ==
    (Ran(written) /\ written.ok) => written.n = Len(written.bytes)

(***************************************************************************)
(* C27: a path whose d attribute resolves to at least one point always     *)
(* emits a command with at least one point: the de-duplication of a closed *)
(* path removes a point only when it is a second occurrence of the first   *)
(* point, so a path that is a single move-to keeps its point.              *)
(***************************************************************************)
C27_PathKeepsAPoint ==
    (Ran(traced) /\ Len(walk.points) >= 1) =>
        /\ traced.ok
        /\ Len(traced.command[1].points) >= 1
        /\ Len(walk.points) = 1 => Len(traced.command[1].points) = 1

(***************************************************************************)
(* C28: the image size written in the header is the viewBox width and      *)
(* height (the width and height attributes when there is no viewBox) in    *)
(* whole device pixels, and is the same whether the converter uses Normal  *)
(* or Precise precision.                                                   *)
(***************************************************************************)
ViewSize == get_viewbox(document.content).view_box

\* bytes 5..8 of the header after the magic and the length: width, height
SizeBytes(bytes) == SubSeq(bytes, Len(Magic) + 4 + 2 + 1, Len(Magic) + 4 + 6)

C28_SizeIsViewBoxInPixels ==
    (/\ Ran(converted) /\ converted.ok
     /\ ViewSize.w % Unit = 0 /\ ViewSize.h % Unit = 0) =>
        /\ converted.image.size = PebblePoint(ViewSize.w \div Unit, ViewSize.h \div Unit)
        /\ (Ran(output) /\ output.ok) =>
              SizeBytes(output.bytes) =
                  U16LE(ViewSize.w \div Unit) \o U16LE(ViewSize.h \div Unit)

====
